---- MODULE Spec2Model ----
(***************************************************************************)
(* A model of the parameter dependency resolver of api-builder:            *)
(*   cli/dependency_analyzer.py  (provider index, dependency graph,        *)
(*                                execution planner)                       *)
(*   cli/parameter_detector.py   (parameter classifier)                    *)
(*   cli/commands/system.py      (interactive parameter resolver)          *)
(*   cli/context.py              (context store)                           *)
(***************************************************************************)
EXTENDS Naturals, Integers, Sequences, FiniteSets, TLC

VARIABLES
    \* DependencyAnalyzer fields
    paths,                \* self.paths: the "paths" object of the OpenAPI document
    schemas,              \* self.schemas: components.schemas
    param_to_providers,   \* self.param_to_providers
    dependency_graph,     \* self.dependency_graph
    \* one get_execution_plan call
    ppc,                  \* "idle" | "running" | "done"
    target_endpoint,      \* argument
    required_params,      \* argument
    roots,                \* the visit() calls the body still has to make, in order
    vstack,               \* the activation records of visit(), innermost last
    visited,              \* local set
    plan,                 \* local list
    ordered,              \* the returned list
    \* the latest detect_parameter_type call
    cname,                \* param_name
    cschema,              \* param_schema
    cinfo,                \* the ParameterInfo returned
    \* resolve_parameter_with_dependency
    context,              \* the context store (context.json): name -> value
    rstack,               \* _resolving_stack of the running top-level call
    frames,               \* activation records of the resolver, innermost last
    ret,                  \* what the latest finished call returned, and how
    calls,                \* top-level calls made so far
    \* one select_from_response call
    sel,                  \* its arguments, the rows asked for, the row used, the result
    \* qapi/circuit_breaker.py: one CircuitBreaker and its caller
    breaker,              \* the instance's configuration and private fields
    bcall,                \* the latest call made through it, as its caller saw it
    now,                  \* datetime.utcnow(), in seconds
    \* qapi/retry.py: one exponential_backoff call
    retry,                \* its arguments, its loop position and what it did
    \* qapi/retry.py: one AdaptiveRetry and its caller
    adaptive              \* the instance's fields, the running execute call, the calls so far

analyzerVars == <<paths, schemas, param_to_providers, dependency_graph>>
planVars == <<ppc, target_endpoint, required_params, roots, vstack, visited, plan, ordered>>
classVars == <<cname, cschema, cinfo>>
resolveVars == <<context, rstack, frames, ret, calls>>
callVars == <<sel, breaker, bcall, now, retry, adaptive>>
vars == <<paths, schemas, param_to_providers, dependency_graph,
          ppc, target_endpoint, required_params, roots, vstack, visited, plan, ordered,
          cname, cschema, cinfo,
          context, rstack, frames, ret, calls,
          sel, breaker, bcall, now, retry, adaptive>>

(***************************************************************************)
(* Strings.  TLC evaluates Len, SubSeq and \o on strings, so the regular   *)
(* expressions and str methods of the source are computed on the names.    *)
(***************************************************************************)
EndsWith[s \in STRING, suf \in STRING] ==
    /\ Len(s) >= Len(suf)
    /\ SubSeq(s, Len(s) - Len(suf) + 1, Len(s)) = suf

StartsWith[s \in STRING, pre \in STRING] ==
    /\ Len(s) >= Len(pre)
    /\ SubSeq(s, 1, Len(pre)) = pre

Contains[s \in STRING, sub \in STRING] ==
    \E i \in 1..(Len(s) + 1) :
        /\ i + Len(sub) - 1 <= Len(s)
        /\ SubSeq(s, i, i + Len(sub) - 1) = sub

UpperLetters == "ABCDEFGHIJKLMNOPQRSTUVWXYZ"
LowerLetters == "abcdefghijklmnopqrstuvwxyz"

LowerOfUpper ==
    [c \in { SubSeq(UpperLetters, i, i) : i \in 1..26 } |->
        SubSeq(LowerLetters, CHOOSE j \in 1..26 : SubSeq(UpperLetters, j, j) = c,
                             CHOOSE j \in 1..26 : SubSeq(UpperLetters, j, j) = c)]

UpperOfLower ==
    [c \in { SubSeq(LowerLetters, i, i) : i \in 1..26 } |->
        SubSeq(UpperLetters, CHOOSE j \in 1..26 : SubSeq(LowerLetters, j, j) = c,
                             CHOOSE j \in 1..26 : SubSeq(LowerLetters, j, j) = c)]

\* str.lower() of a one-character string
LowerChar[c \in STRING] == IF c \in DOMAIN LowerOfUpper THEN LowerOfUpper[c] ELSE c

\* str.lower(), character by character
Lower[s \in STRING] ==
    LET low[i \in 0..Len(s)] ==
            IF i = 0 THEN "" ELSE low[i - 1] \o LowerChar[SubSeq(s, i, i)]
    IN  low[Len(s)]

\* s.split("/")[-1]: the text after the last "/"
LastSegment[s \in STRING] ==
    LET slashes == { i \in 1..Len(s) : SubSeq(s, i, i) = "/" }
    IN  IF slashes = {} THEN s
        ELSE SubSeq(s, (CHOOSE i \in slashes : \A j \in slashes : j <= i) + 1, Len(s))

(***************************************************************************)
(* The OpenAPI document.  paths is a sequence (a dict iterates in          *)
(* insertion order) of entries                                             *)
(*   [path, method, parameters, responses]                                 *)
(* one operation per path; a parameter is                                  *)
(*   [name, required, type, format, hasEnum]       ("" : key absent)       *)
(* and a response is [status, ref, properties]: the key of the response in *)
(* the responses dict and the schema of one of its media types, properties *)
(* a function from property names to [type, ref, names, hasItems, items],  *)
(* where names are the property's own properties and items is [ref, names].*)
(***************************************************************************)
\* schemas.get(ref, {}) followed by .get("properties", {})
RegistryProps(reg, ref) ==
    IF LastSegment[ref] \in DOMAIN reg THEN DOMAIN reg[LastSegment[ref]].properties
    ELSE {}

\* DependencyAnalyzer._extract_properties on a response schema
_extract_properties(schema, reg) ==
    IF schema.ref # "" THEN RegistryProps(reg, schema.ref)
    ELSE DOMAIN schema.properties

\* DependencyAnalyzer._extract_properties on a property value or an items schema
ExtractInner(ref, names, reg) ==
    IF ref # "" THEN RegistryProps(reg, ref) ELSE names

\* DependencyAnalyzer._extract_nested_properties
_extract_nested_properties(schema, reg) ==
    LET props == IF schema.ref # ""
                 THEN (IF LastSegment[schema.ref] \in DOMAIN reg
                       THEN reg[LastSegment[schema.ref]].properties ELSE <<>>)
                 ELSE schema.properties
    IN  UNION { (IF props[k].type = "object"
                 THEN ExtractInner(props[k].ref, props[k].names, reg) ELSE {})
                \cup
                (IF props[k].type = "array" /\ props[k].hasItems
                 THEN ExtractInner(props[k].items.ref, props[k].items.names, reg) ELSE {})
                : k \in DOMAIN props }

\* DependencyAnalyzer._is_foreign_key: re.match(r".*Id$", name)
_is_foreign_key(name) == EndsWith[name, "Id"]

\* the list [x] * n
RECURSIVE Repeat(_, _)
Repeat(x, n) == IF n = 0 THEN <<>> ELSE <<x>> \o Repeat(x, n - 1)

RECURSIVE SumSeq(_)
SumSeq(s) == IF s = <<>> THEN 0 ELSE Head(s) + SumSeq(Tail(s))

\* how many times analyze_parameters appends entry e's path to the list of name
AppendCount(e, name, reg) ==
    SumSeq([i \in 1..Len(e.responses) |->
              (IF name \in _extract_properties(e.responses[i], reg) THEN 1 ELSE 0)
            + (IF name \in _extract_nested_properties(e.responses[i], reg) THEN 1 ELSE 0)])
    + SumSeq([i \in 1..Len(e.parameters) |->
              IF e.parameters[i].name = name /\ _is_foreign_key(name) THEN 1 ELSE 0])

\* every name analyze_parameters creates a key for
ProvidedNames(ps, reg) ==
    UNION { UNION { _extract_properties(ps[k].responses[i], reg)
                    \cup _extract_nested_properties(ps[k].responses[i], reg)
                    : i \in 1..Len(ps[k].responses) }
            \cup { ps[k].parameters[i].name : i \in
                     { j \in 1..Len(ps[k].parameters) : _is_foreign_key(ps[k].parameters[j].name) } }
            : k \in { j \in 1..Len(ps) : Lower[ps[j].method] = "get" } }

RECURSIVE ProviderList(_, _, _)
ProviderList(ps, name, reg) ==
    IF ps = <<>> THEN <<>>
    ELSE (IF Lower[Head(ps).method] = "get"
          THEN Repeat(Head(ps).path, AppendCount(Head(ps), name, reg))
          ELSE <<>>)
         \o ProviderList(Tail(ps), name, reg)

\* DependencyAnalyzer.analyze_parameters
analyze_parameters(ps, reg) ==
    [name \in ProvidedNames(ps, reg) |-> ProviderList(ps, name, reg)]

\* DependencyAnalyzer.find_parameter_providers: param_to_providers.get(name, [])
find_parameter_providers(index, name) ==
    IF name \in DOMAIN index THEN index[name] ELSE <<>>

Range(s) == { s[i] : i \in DOMAIN s }

\* the comprehension of lines 74-77
RequiredNames(e) ==
    { e.parameters[i].name : i \in { j \in 1..Len(e.parameters) : e.parameters[j].required } }

\* lines 78-82 with the last line's "- {path}" dropped
DepsKeepingSelf(e, index) ==
    UNION { Range(find_parameter_providers(index, p)) : p \in RequiredNames(e) }

\* lines 74-83 without the "if p.get("required")" of line 76
DepsOfAllParameters(e, index) ==
    UNION { Range(find_parameter_providers(index, e.parameters[i].name))
            : i \in 1..Len(e.parameters) } \ {e.path}

\* lines 78-82: the dependency set of one GET entry
DepsOf(e, index) ==
    UNION { Range(find_parameter_providers(index, p)) : p \in RequiredNames(e) } \ {e.path}

\* DependencyAnalyzer.build_dependency_graph
build_dependency_graph(ps, index) ==
    [path \in { ps[k].path : k \in { j \in 1..Len(ps) : Lower[ps[j].method] = "get" } } |->
        DepsOf(ps[CHOOSE k \in 1..Len(ps) : ps[k].path = path], index)]

(***************************************************************************)
(* ParameterDetector.  A schema fragment is a record                       *)
(*   [type, format, hasEnum, enum]                                         *)
(* with "" for an absent type or format and NoneValue for a key that is    *)
(* present with value None.                                                *)
(***************************************************************************)
NoneValue == "<None>"

\* self.id_patterns (lines 39-45) under re.match
MatchesIdPatterns(name) ==
    \/ EndsWith[name, "Id"] \/ EndsWith[name, "id"]
    \/ Lower[name] = "id"
    \/ EndsWith[name, "_id"]
    \/ EndsWith[name, "Ids"] \/ EndsWith[name, "ids"]
    \/ Lower[name] = "uuid"

\* ParameterDetector.is_foreign_key
is_foreign_key(name) == MatchesIdPatterns(name)

\* self.pagination_params (lines 68-71)
pagination_params ==
    {"page", "pagesize", "limit", "offset", "skip",
     "per_page", "perpage", "size", "start", "cursor"}

\* self.date_patterns (lines 73-80) under re.match
MatchesDatePatterns(name) ==
    \/ EndsWith[name, "Date"] \/ EndsWith[name, "date"]
    \/ \E d \in {"Date", "date"}, t \in {"Time", "time"} : EndsWith[name, d \o t]
    \/ EndsWith[name, "Time"] \/ EndsWith[name, "time"]
    \/ EndsWith[name, "At"] \/ EndsWith[name, "at"]
    \/ EndsWith[name, "Utc"] \/ EndsWith[name, "utc"]
    \/ Lower[name] \in {"created", "updated", "modified", "deleted"}

\* self.filter_patterns (lines 82-89) under re.match
MatchesFilterPatterns(name) ==
    \/ StartsWith[Lower[name], "filter"]
    \/ StartsWith[Lower[name], "search"]
    \/ StartsWith[Lower[name], "query"]
    \/ EndsWith[name, "Filter"] \/ EndsWith[name, "filter"]
    \/ EndsWith[name, "Search"] \/ EndsWith[name, "search"]
    \/ EndsWith[name, "Query"] \/ EndsWith[name, "query"]

\* self.reference_patterns (lines 47-66), in insertion order
reference_patterns ==
    << <<"merchantId", "merchants">>, <<"merchantIds", "merchants">>,
       <<"locationId", "locations">>, <<"locationIds", "locations">>,
       <<"userId", "users">>, <<"userIds", "users">>,
       <<"groupId", "groups">>, <<"groupIds", "groups">>,
       <<"roleId", "roles">>, <<"channelId", "channels">>,
       <<"orderId", "orders">>, <<"incidentId", "incidents">>,
       <<"rewardId", "rewards">>, <<"surveyId", "surveys">>,
       <<"questionnaireId", "questionnaires">>, <<"snapshotId", "snapshots">>,
       <<"deliveryServiceId", "delivery-services">>, <<"partnerId", "partners">> >>

\* re.sub(r'[Ii]d$', '', name): the plural and the underscore forgotten
StripIdOnly(name) ==
    IF EndsWith[name, "Id"] \/ EndsWith[name, "id"] THEN SubSeq(name, 1, Len(name) - 2)
    ELSE name

\* re.sub(r'[Ii]ds?$|_id$', '', name): the leftmost match is removed
StripIdSuffix(name) ==
    IF EndsWith[name, "_id"] THEN SubSeq(name, 1, Len(name) - 3)
    ELSE IF EndsWith[name, "Ids"] \/ EndsWith[name, "ids"] THEN SubSeq(name, 1, Len(name) - 3)
    ELSE IF EndsWith[name, "Id"] \/ EndsWith[name, "id"] THEN SubSeq(name, 1, Len(name) - 2)
    ELSE name

\* ParameterDetector.get_likely_provider; NoneValue for None
get_likely_provider(name) ==
    LET exact == { i \in DOMAIN reference_patterns : reference_patterns[i][1] = name }
        nocase == { i \in DOMAIN reference_patterns :
                      Lower[reference_patterns[i][1]] = Lower[name] }
        Min(S) == CHOOSE i \in S : \A j \in S : i <= j
    IN  IF exact # {} THEN reference_patterns[Min(exact)][2]
        ELSE IF nocase # {} THEN reference_patterns[Min(nocase)][2]
        ELSE IF is_foreign_key(name) /\ StripIdSuffix(name) # ""
             THEN Lower[StripIdSuffix(name)] \o "s"
        ELSE NoneValue

Info(t, schema) ==
    [type |-> t, likely_provider |-> NoneValue, enum_values |-> <<>>, raised |-> FALSE]

\* lines 139-150: the fallback on the declared type.  None has no lower():
\* AttributeError, and no ParameterInfo is returned (raised)
DeclaredType(schema) ==
    IF schema.type = NoneValue
    THEN [type |-> NoneValue, likely_provider |-> NoneValue, enum_values |-> <<>>,
          raised |-> TRUE]
    ELSE IF Lower[schema.type] = "boolean" THEN Info("BOOLEAN", schema)
    ELSE IF Lower[schema.type] \in {"integer", "number"} THEN Info("NUMERIC", schema)
    ELSE IF Lower[schema.type] = "string" THEN Info("STRING", schema)
    ELSE Info("UNKNOWN", schema)

\* ParameterDetector.detect_parameter_type
detect_parameter_type(name, schema) ==
    IF schema.hasEnum
    THEN [Info("ENUM", schema) EXCEPT !.enum_values = schema.enum]
    ELSE IF is_foreign_key(name)
    THEN [Info("FOREIGN_KEY", schema) EXCEPT !.likely_provider = get_likely_provider(name)]
    ELSE IF Lower[name] \in pagination_params THEN Info("PAGINATION", schema)
    ELSE IF MatchesDatePatterns(name)
    THEN (IF schema.format = "date-time" \/ Contains[Lower[name], "datetime"]
          THEN Info("DATETIME", schema) ELSE Info("DATE", schema))
    ELSE IF MatchesFilterPatterns(name)
    THEN (IF Contains[Lower[name], "search"]
          THEN Info("SEARCH", schema) ELSE Info("FILTER", schema))
    ELSE DeclaredType(schema)

(***************************************************************************)
(* The OpenAPI documents the analyzer is constructed from.                 *)
(***************************************************************************)
PathNames == <<"/a", "/b", "/c">>

StringProp == [type |-> "string", ref |-> "", names |-> {}, hasItems |-> FALSE,
               items |-> [ref |-> "", names |-> {}]]

TypedParam(n, req, t) ==
    [name |-> n, required |-> req, type |-> t, format |-> "", hasEnum |-> FALSE, enum |-> <<>>]

Param(n, req) == TypedParam(n, req, "string")

\* the parameter lists tried: aId optional or required, key required
ParamLists ==
    { <<>>,
      <<Param("aId", FALSE)>>,
      <<Param("aId", TRUE)>>,
      <<Param("key", TRUE)>>,
      <<Param("aId", TRUE), Param("key", TRUE)>> }

\* the response property sets tried for /a and /b
PropSets == { {}, {"aId"}, {"key"} }

\* one success response with an inline schema of string properties
InlineResponses(names) ==
    <<[status |-> "200", ref |-> "", properties |-> [n \in names |-> StringProp]]>>

Entry(p, m, params, names) ==
    [path |-> p, method |-> m, parameters |-> params, responses |-> InlineResponses(names)]

\* /c has no parameters: a leaf provider, or an operation that is not a GET
LeafEntries ==
    { Entry(PathNames[3], "get", <<>>, {"aId"}),
      Entry(PathNames[3], "get", <<>>, {"key"}),
      Entry(PathNames[3], "get", <<>>, {"aId", "key"}),
      Entry(PathNames[3], "post", <<>>, {"aId"}) }

PlanDocuments ==
    { <<Entry(PathNames[1], "get", pa, na), Entry(PathNames[2], "get", pb, nb), c>>
      : pa \in ParamLists, na \in PropSets,
        pb \in ParamLists, nb \in PropSets,
        c \in LeafEntries }

(***************************************************************************)
(* get_execution_plan, one step per visit() call or return.                *)
(***************************************************************************)
MaxReq == 2          \* longest required_params list tried

RECURSIVE SeqsUpTo(_, _)
SeqsUpTo(S, n) ==
    IF n = 0 THEN {<<>>}
    ELSE SeqsUpTo(S, n - 1) \cup { Append(q, x) : q \in SeqsUpTo(S, n - 1), x \in S }

PlanTargets == Range(PathNames) \cup {"/x"}
PlanParamNames == {"aId", "key"}

\* visit() without its loop over the dependencies
GraphGetNothing(graph, endpoint) == {}

\* self.dependency_graph.get(endpoint, [])
GraphGet(graph, endpoint) ==
    IF endpoint \in DOMAIN graph THEN graph[endpoint] ELSE {}

\* the body without its loop over required_params
NoProviderRoots(index, req) == <<>>

\* lines 108-111: the visit() calls of the body, in order
RECURSIVE ProviderRoots(_, _)
ProviderRoots(index, req) ==
    IF req = <<>> THEN <<>>
    ELSE find_parameter_providers(index, Head(req)) \o ProviderRoots(index, Tail(req))

\* line 100 without the test
NeverVisited(endpoint, seen) == FALSE

\* line 100: "if endpoint in visited"
AlreadyVisited(endpoint, seen) == endpoint \in seen

\* lines 113-118
RECURSIVE RemoveDuplicates(_, _)
RemoveDuplicates(p, seen) ==
    IF p = <<>> THEN <<>>
    ELSE IF Head(p) \in seen THEN RemoveDuplicates(Tail(p), seen)
         ELSE <<Head(p)>> \o RemoveDuplicates(Tail(p), seen \cup {Head(p)})

\* lines 112-119 followed by an append of the target
OrderedThenTarget(p, target) == RemoveDuplicates(p, {}) \o <<target>>

\* lines 112-119: the returned list
OrderedPlan(p, target) == RemoveDuplicates(p, {})

MaxVisitDepth == Len(PathNames) + 2

NoSchemaFragment == [type |-> "", format |-> "", hasEnum |-> FALSE, enum |-> <<>>]

\* no call has returned yet
NoReturn == [name |-> "", info |-> NoSchemaFragment, value |-> NoneValue, source |-> "none",
             stored |-> NoneValue, cached |-> NoneValue,
             cyc |-> FALSE, cut |-> FALSE, classified |-> FALSE, looked_up |-> FALSE,
             executed |-> 0, prompted |-> 0, answer |-> NoneValue, depth |-> 0,
             stack_in |-> {}, stack_out |-> {}]

\* no classification made yet
ClassIdle ==
    /\ cname = ""
    /\ cschema = NoSchemaFragment
    /\ cinfo = Info("UNKNOWN", NoSchemaFragment)

\* no select_from_response call made yet
NoSelection == [pc |-> "idle", response |-> [kind |-> "none", fields |-> <<>>, rows |-> <<>>],
                name |-> "", asked |-> 0, row |-> -1, value |-> NoneValue]

\* no CircuitBreaker constructed
NoBreaker == [state |-> "none", failure_threshold |-> 0, recovery_timeout |-> 0,
              success_threshold |-> 0, half_open_max_calls |-> 0,
              failure_count |-> 0, success_count |-> 0, half_open_calls |-> 0,
              last_failure_time |-> -1]

NoBreakerCall == [outcome |-> "none", invoked |-> FALSE, before |-> "none",
                  streak |-> 0, tripped |-> FALSE, last_fail |-> -1, early |-> FALSE,
                  passed |-> -1, passed_before |-> -1]

\* no exponential_backoff call made
NoRetry == [pc |-> "idle", max_retries |-> 0, retry_on |-> {}, has_retry_if |-> FALSE,
            attempt |-> 0, invoked |-> 0, slept |-> 0, log |-> <<>>, raised |-> 0]

\* no AdaptiveRetry constructed
NoAdaptive == [pc |-> "none", max_retries |-> 0, success_threshold |-> 0,
               failure_threshold |-> 0, success_count |-> 0, failure_count |-> 0,
               total_attempts |-> 0, total_retries |-> 0,
               attempt |-> 0, retries_used |-> 0, executes |-> 0, returned |-> 0]

CallsIdle ==
    /\ sel = NoSelection
    /\ breaker = NoBreaker
    /\ bcall = NoBreakerCall
    /\ now = 0
    /\ retry = NoRetry
    /\ adaptive = NoAdaptive

\* a fresh session: empty context store, no resolution running
ResolveIdle ==
    /\ context = <<>>
    /\ rstack = {}
    /\ frames = <<>>
    /\ ret = NoReturn
    /\ calls = 0

PlanIdle ==
    /\ ppc = "idle"
    /\ target_endpoint = ""
    /\ required_params = <<>>
    /\ roots = <<>>
    /\ vstack = <<>>
    /\ visited = {}
    /\ plan = <<>>
    /\ ordered = <<>>

PlanCall(t, req) ==
    /\ ppc \in {"idle", "done"}
    /\ ppc' = "running"
    /\ target_endpoint' = t
    /\ required_params' = req
    /\ roots' = ProviderRoots(param_to_providers, req) \o <<t>>
    /\ vstack' = <<>>
    /\ visited' = {}
    /\ plan' = <<>>
    /\ ordered' = <<>>
    /\ UNCHANGED <<analyzerVars, classVars, resolveVars, callVars>>

\* visit(endpoint) up to its loop: lines 100-102
EnterVisit(endpoint, stack) ==
    IF AlreadyVisited(endpoint, visited)
    THEN /\ vstack' = stack
         /\ visited' = visited
    ELSE /\ vstack' = Append(stack, [endpoint |-> endpoint,
                                      todo |-> GraphGet(dependency_graph, endpoint)])
         /\ visited' = visited \cup {endpoint}

\* the body calls visit on the next provider, or on the target
VisitRoot ==
    /\ ppc = "running"
    /\ vstack = <<>>
    /\ roots # <<>>
    /\ Len(vstack) < MaxVisitDepth
    /\ EnterVisit(Head(roots), vstack)
    /\ roots' = Tail(roots)
    /\ UNCHANGED <<ppc, target_endpoint, required_params, plan, ordered>>
    /\ UNCHANGED <<analyzerVars, classVars, resolveVars, callVars>>

\* line 103-104: the loop of the innermost visit() takes its next dependency
VisitDep ==
    /\ ppc = "running"
    /\ vstack # <<>>
    /\ vstack[Len(vstack)].todo # {}
    /\ Len(vstack) < MaxVisitDepth
    /\ \E dep \in vstack[Len(vstack)].todo :
          EnterVisit(dep, [vstack EXCEPT ![Len(vstack)].todo = @ \ {dep}])
    /\ UNCHANGED <<ppc, target_endpoint, required_params, roots, plan, ordered>>
    /\ UNCHANGED <<analyzerVars, classVars, resolveVars, callVars>>

\* line 105: the innermost visit() appends its endpoint and returns
VisitReturn ==
    /\ ppc = "running"
    /\ vstack # <<>>
    /\ vstack[Len(vstack)].todo = {}
    /\ plan' = Append(plan, vstack[Len(vstack)].endpoint)
    /\ vstack' = SubSeq(vstack, 1, Len(vstack) - 1)
    /\ UNCHANGED <<ppc, target_endpoint, required_params, roots, visited, ordered>>
    /\ UNCHANGED <<analyzerVars, classVars, resolveVars, callVars>>

\* lines 112-119
PlanReturn ==
    /\ ppc = "running"
    /\ vstack = <<>>
    /\ roots = <<>>
    /\ ordered' = OrderedPlan(plan, target_endpoint)
    /\ ppc' = "done"
    /\ UNCHANGED <<target_endpoint, required_params, roots, vstack, visited, plan>>
    /\ UNCHANGED <<analyzerVars, classVars, resolveVars, callVars>>

PlanStep == VisitRoot \/ VisitDep \/ VisitReturn \/ PlanReturn

PlanInit ==
    /\ paths \in PlanDocuments
    /\ schemas = <<>>
    /\ param_to_providers = analyze_parameters(paths, schemas)
    /\ dependency_graph = build_dependency_graph(paths, param_to_providers)
    /\ ppc = "idle"
    /\ target_endpoint = ""
    /\ required_params = <<>>
    /\ roots = <<>>
    /\ vstack = <<>>
    /\ visited = {}
    /\ plan = <<>>
    /\ ordered = <<>>
    /\ ClassIdle
    /\ CallsIdle
    /\ ResolveIdle

PlanNext ==
    \/ \E t \in PlanTargets, req \in SeqsUpTo(PlanParamNames, MaxReq) : PlanCall(t, req)
    \/ PlanStep

Spec == PlanInit /\ [][PlanNext]_vars

\* the interpreter runs a started call to its end
FairSpec == Spec /\ WF_vars(PlanStep)

(***************************************************************************)
(* Dependency graph and execution planner: properties.                     *)
(***************************************************************************)
GetEntries == { k \in 1..Len(paths) : Lower[paths[k].method] = "get" }

\* C1: no endpoint of a built dependency graph is a member of its own
\* dependency set.
NoSelfDependency ==
    \A e \in DOMAIN dependency_graph : e \notin dependency_graph[e]

\* an endpoint that provides one of its own required parameters is a key of the graph
SelfProviderInGraph ==
    \E k \in GetEntries :
        /\ paths[k].path \in DOMAIN dependency_graph
        /\ \E p \in RequiredNames(paths[k]) :
              paths[k].path \in Range(find_parameter_providers(param_to_providers, p))

RECURSIVE SumOver(_, _)
SumOver(S, f) ==
    IF S = {} THEN 0
    ELSE LET x == CHOOSE y \in S : TRUE IN f[x] + SumOver(S \ {x}, f)

\* the work a running get_execution_plan call still has before it returns
PlanMeasure ==
    (IF ppc = "running" THEN 1 ELSE 0)
    + Len(roots)
    + SumOver(PlanTargets \ visited,
              [e \in PlanTargets |-> 2 + Cardinality(GraphGet(dependency_graph, e))])
    + SumSeq([i \in 1..Len(vstack) |-> 1 + Cardinality(vstack[i].todo)])

\* C2: get_execution_plan terminates on every graph, cyclic ones included:
\* every step of a running call strictly decreases a natural-number measure
\* bounded by the endpoints and edges, and a running call reaches its return.
PlanTerminates ==
    /\ [][ppc = "running" => PlanMeasure' < PlanMeasure]_vars
    /\ (ppc = "running") ~> (ppc = "done")

\* a call on a graph with the cycle /a -> /b -> /a has returned
CyclicPlanReturned ==
    /\ ppc = "done"
    /\ "/b" \in GraphGet(dependency_graph, "/a")
    /\ "/a" \in GraphGet(dependency_graph, "/b")
    /\ target_endpoint = "/a"
    /\ Len(ordered) >= 2

NoDuplicates(q) == \A i, j \in DOMAIN q : i # j => q[i] # q[j]

\* C3: the plan get_execution_plan returns contains no endpoint twice.
PlanHasNoDuplicates ==
    ppc = "done" => NoDuplicates(ordered)

\* a call whose parameters share a provider has returned
SharedProviderPlanReturned ==
    /\ ppc = "done"
    /\ Len(required_params) = 2
    /\ required_params[1] # required_params[2]
    /\ Range(find_parameter_providers(param_to_providers, required_params[1]))
         \cap Range(find_parameter_providers(param_to_providers, required_params[2])) # {}
    /\ Len(ordered) >= 2

\* C4: the last element of the returned plan is the requested target.
PlanEndsAtTarget ==
    ppc = "done" => (ordered # <<>> /\ ordered[Len(ordered)] = target_endpoint)

\* the depth guard of VisitRoot and VisitDep never binds
VisitDepthWithinGuard == Len(vstack) < MaxVisitDepth - 1

(***************************************************************************)
(* Values.  Every Python value the resolver handles is written as a        *)
(* string: "" is the empty str, the others are spelled in brackets.        *)
(***************************************************************************)
TrueValue == "<True>"
FalseValue == "<False>"
ZeroValue == "<0>"
PageDefault == "<1>"
SizeDefault == "<50>"

\* bool(v) of a scalar
Truthy(v) == v \notin {NoneValue, "", FalseValue, ZeroValue}

\* a dict is a sequence of <<key, value>> pairs in insertion order
DictHas(d, k) == \E i \in DOMAIN d : d[i][1] = k
DictGet(d, k) == d[CHOOSE i \in DOMAIN d : d[i][1] = k][2]

(***************************************************************************)
(* cli/context.py                                                          *)
(***************************************************************************)
\* get_value: get_context().get(key)
get_value(store, key) == IF key \in DOMAIN store THEN store[key] ELSE NoneValue

\* the data written back without the update of the existing context
WriteDataOnly(store, key, value) == [k \in {key} |-> value]

\* save_context({key: value}): existing.update(data), then written back
save_context(store, key, value) ==
    [k \in DOMAIN store \cup {key} |-> IF k = key THEN value ELSE store[k]]

(***************************************************************************)
(* ParameterDetector.extract_id_from_response and select_from_response.    *)
(* A response is [kind, fields, rows]:                                     *)
(*   "none"      None                                                      *)
(*   "dict"      the dict fields, with no "data" key                       *)
(*   "datalist"  the dict fields plus "data": the list rows                *)
(*   "list"      the list rows                                             *)
(* where fields and every row are dicts of scalars.                        *)
(***************************************************************************)
UpperChar[c \in STRING] == IF c \in DOMAIN UpperOfLower THEN UpperOfLower[c] ELSE c

IsUpperChar[c \in STRING] == c \in DOMAIN LowerOfUpper

\* str.upper()
Upper[s \in STRING] ==
    LET up[i \in 0..Len(s)] ==
            IF i = 0 THEN "" ELSE up[i - 1] \o UpperChar[SubSeq(s, i, i)]
    IN  up[Len(s)]

\* re.sub(r'(?<!^)(?=[A-Z])', '_', text): "_" before every capital but the first character
UnderscoreCapitals[s \in STRING] ==
    LET out[i \in 0..Len(s)] ==
            IF i = 0 THEN ""
            ELSE out[i - 1]
                 \o (IF i > 1 /\ IsUpperChar[SubSeq(s, i, i)] THEN "_" ELSE "")
                 \o SubSeq(s, i, i)
    IN  out[Len(s)]

\* ParameterDetector._camel_to_snake
_camel_to_snake[s \in STRING] == Lower[UnderscoreCapitals[s]]

\* x.title() of the letters-only components that follow an underscore
TitleRest[s \in STRING] ==
    LET out[i \in 0..Len(s)] ==
            IF i = 0 THEN ""
            ELSE IF SubSeq(s, i, i) = "_" THEN out[i - 1]
            ELSE out[i - 1]
                 \o (IF i > 1 /\ SubSeq(s, i - 1, i - 1) = "_"
                     THEN UpperChar[SubSeq(s, i, i)] ELSE LowerChar[SubSeq(s, i, i)])
    IN  out[Len(s)]

\* the length of the text before the first underscore
FirstComponentLen[s \in STRING] ==
    LET underscores == { i \in 1..Len(s) : SubSeq(s, i, i) = "_" }
    IN  IF underscores = {} THEN Len(s)
        ELSE (CHOOSE i \in underscores : \A j \in underscores : i <= j) - 1

\* ParameterDetector._snake_to_camel
_snake_to_camel[s \in STRING] ==
    SubSeq(s, 1, FirstComponentLen[s])
    \o TitleRest[SubSeq(s, FirstComponentLen[s] + 1, Len(s))]

\* ParameterDetector._find_nested_value on a dict whose values are no dicts
_find_nested_value(d, key) == IF DictHas(d, key) THEN DictGet(d, key) ELSE NoneValue

\* the loop of _find_any_id_field (lines 268-273): the first id-shaped key
IdShapedKeys(d) ==
    { i \in DOMAIN d : Lower[d[i][1]] = "id" \/ EndsWith[Lower[d[i][1]], "id"] }

FirstIdField(d) ==
    IF IdShapedKeys(d) = {} THEN NoneValue
    ELSE d[CHOOSE i \in IdShapedKeys(d) : \A j \in IdShapedKeys(d) : i <= j][2]

\* ParameterDetector._find_any_id_field
_find_any_id_field(d, hasData, rows) ==
    IF IdShapedKeys(d) # {} THEN FirstIdField(d)
    ELSE IF hasData /\ rows # <<>> THEN FirstIdField(rows[1])
    ELSE NoneValue

\* lines 212-222: the first variation found with a value that is not None
Variations(name) ==
    <<name, Lower[name], Upper[name], _camel_to_snake[name], _snake_to_camel[name]>>

VariationValue(d, name) ==
    LET hits == { i \in 1..5 : _find_nested_value(d, Variations(name)[i]) # NoneValue }
    IN  IF hits = {} THEN NoneValue
        ELSE _find_nested_value(d, Variations(name)[CHOOSE i \in hits : \A j \in hits : i <= j])

\* ParameterDetector.extract_id_from_response on the dict d, whose "data" key
\* (when hasData) holds the list rows
extract_id_from_response(d, hasData, rows, name) ==
    IF DictHas(d, name) THEN DictGet(d, name)
    ELSE IF hasData /\ rows # <<>> /\ DictHas(rows[1], name) THEN DictGet(rows[1], name)
    ELSE IF VariationValue(d, name) # NoneValue THEN VariationValue(d, name)
    ELSE IF is_foreign_key(name) THEN _find_any_id_field(d, hasData, rows)
    ELSE NoneValue

\* lines 171-185: the value taken from row idx (0-based) of data, None when it is falsy
RowValue(rows, idx, name) ==
    LET value == extract_id_from_response(rows[idx + 1], FALSE, <<>>, name)
    IN  IF Truthy(value) THEN value ELSE NoneValue

\* select_from_response: what it can return, one value per row number the
\* operator can enter.  A row number outside the list, or no number, prompts
\* again and changes nothing.
select_from_response(response, name) ==
    IF response.kind \in {"datalist", "list"} /\ response.rows # <<>>
    THEN { RowValue(response.rows, idx, name) : idx \in 0..(Len(response.rows) - 1) }
    ELSE { extract_id_from_response(response.fields, response.kind = "datalist",
                                    response.rows, name) }

\* bool(response)
ResponseTruthy(response) ==
    CASE response.kind = "none" -> FALSE
      [] response.kind = "dict" -> response.fields # <<>>
      [] response.kind = "datalist" -> TRUE
      [] response.kind = "list" -> response.rows # <<>>

(***************************************************************************)
(* cli/commands/system.py: rank_provider, execute_endpoint and             *)
(* resolve_parameter_with_dependency.                                      *)
(***************************************************************************)
HasGet(ps, endpoint) == \E k \in DOMAIN ps : ps[k].path = endpoint /\ ps[k].method = "get"

GetEntry(ps, endpoint) == ps[CHOOSE k \in DOMAIN ps : ps[k].path = endpoint /\ ps[k].method = "get"]

\* rank_provider
rank_provider(endpoint, ps) ==
    (IF Contains[endpoint, "{"] THEN 10 ELSE 0)
    + (IF HasGet(ps, endpoint)
       THEN Cardinality({ i \in DOMAIN GetEntry(ps, endpoint).parameters :
                            GetEntry(ps, endpoint).parameters[i].required })
       ELSE 0)

\* list.sort(key=rank_provider): ascending, and stable: elements of equal rank
\* keep their order.  InsertByRank is the number of elements sorted before
\* the element at position i.
InsertByRank(i, list, ps) ==
    Cardinality({ j \in DOMAIN list :
                    \/ rank_provider(list[j], ps) < rank_provider(list[i], ps)
                    \/ (rank_provider(list[j], ps) = rank_provider(list[i], ps) /\ j < i) })

SortByRank(list, ps) ==
    [k \in 1..Len(list) |->
        list[CHOOSE i \in DOMAIN list : InsertByRank(i, list, ps) = k - 1]]

\* lines 256-260, on the sorted list
SelectProvider(name, sorted) ==
    IF Lower[name] = "merchantid" /\ "/merchants" \in Range(sorted)
    THEN "/merchants"
    ELSE sorted[1]

\* provider_params_info left at its initial []
NoProviderParams(ps, provider) == <<>>

\* lines 285-293
ProviderParams(ps, provider) ==
    IF HasGet(ps, provider) THEN GetEntry(ps, provider).parameters ELSE <<>>

\* endpoint_mapping of execute_endpoint (lines 110-115)
endpoint_mapping == {"/merchants", "/locations", "/groups"}

NoResponse == [kind |-> "none", fields |-> <<>>, rows |-> <<>>]

\* what the API client can hand back for a mapped endpoint
ClientResponses ==
    { [kind |-> "dict", fields |-> <<>>, rows |-> <<>>],
      [kind |-> "dict", fields |-> << <<"merchantId", "m1">>, <<"locationId", "l1">> >>,
       rows |-> <<>>],
      [kind |-> "datalist", fields |-> << <<"hasNextPage", FalseValue>> >>,
       rows |-> << << <<"merchantId", "m1">>, <<"locationId", "l1">> >>,
                   << <<"merchantId", "m2">>, <<"locationId", "l2">> >> >>],
      [kind |-> "datalist", fields |-> <<>>,
       rows |-> << << <<"name", "n1">>, <<"id", "i1">> >> >>],
      [kind |-> "list", fields |-> <<>>,
       rows |-> << << <<"merchantId", "">>, <<"locationId", ZeroValue>> >> >>] }

\* execute_endpoint: the client's answer for a mapped endpoint; None for an
\* unmapped one and whenever the client raises (lines 116-129)
execute_endpoint(endpoint) ==
    IF endpoint \in endpoint_mapping THEN ClientResponses \cup {NoResponse}
    ELSE {NoResponse}

\* what Prompt.ask(f"Enter value for ...") can return
ManualAnswers == {"typed", ""}

\* the activation record of a call at its entry; cached is what the context
\* store holds for the name at that moment
NewFrame(name, info, stk, store) ==
    [name |-> name, info |-> info, pc |-> "return", cyc |-> FALSE, cut |-> FALSE,
     cached |-> get_value(store, name), provider |-> "", idx |-> 0, args |-> <<>>,
     value |-> NoneValue, source |-> "none", answer |-> NoneValue,
     classified |-> FALSE, looked_up |-> FALSE, executed |-> 0, prompted |-> 0,
     stack_in |-> stk]

Outcome(f, store, index) == [frame |-> f, store |-> store, index |-> index]

\* lines 322-324 without the save_context call
ManualNotSaved(f, store, index) ==
    { Outcome([f EXCEPT !.pc = "return", !.value = v, !.answer = v, !.source = "manual",
                        !.prompted = @ + 1],
              store, index)
      : v \in ManualAnswers }

\* lines 219-221, 271-273 and 322-324: ask, save, return
ManualOutcomes(f, store, index) ==
    { Outcome([f EXCEPT !.pc = "return", !.value = v, !.answer = v, !.source = "manual",
                        !.prompted = @ + 1],
              save_context(store, f.name, v), index)
      : v \in ManualAnswers }

\* line 216 with the test dropped
NeverInStack(name, stk) == FALSE

\* line 216: "if param_name in _resolving_stack"
InResolvingStack(name, stk) == name \in stk

\* lines 217-221 replaced by a look into the cache
CycleUsesCache(f, store, index) ==
    { Outcome([f EXCEPT !.cyc = TRUE, !.value = get_value(store, f.name), !.source = "cache"],
              store, index) }

\* lines 217-221: the call found its name in the resolving stack
CycleOutcomes(f, store, index) ==
    ManualOutcomes([f EXCEPT !.cyc = TRUE], store, index)

\* lines 252-273: provider lookup; the stored list itself is sorted
LookupOutcomes(f, store, index, ps) ==
    LET g == [f EXCEPT !.looked_up = TRUE]
    IN  IF find_parameter_providers(index, f.name) # <<>>
        THEN { Outcome([g EXCEPT !.pc = "loop", !.idx = 1,
                                 !.provider = SelectProvider(f.name, sorted)],
                       store, [index EXCEPT ![f.name] = sorted])
               : sorted \in {SortByRank(find_parameter_providers(index, f.name), ps)} }
        ELSE ManualOutcomes(g, store, index)

\* lines 239-251: the shortcuts of the classified parameter
ClassifiedOutcomes(f, info, store, index, ps) ==
    LET g == [f EXCEPT !.classified = TRUE]
    IN  IF info.raised
        THEN { Outcome([g EXCEPT !.pc = "raise", !.source = "raise"], store, index) }
        ELSE IF info.type = "PAGINATION" /\ Lower[f.name] = "page"
        THEN { Outcome([g EXCEPT !.value = PageDefault, !.source = "default"], store, index) }
        ELSE IF info.type = "PAGINATION" /\ Lower[f.name] \in {"pagesize", "limit", "size"}
        THEN { Outcome([g EXCEPT !.value = SizeDefault, !.source = "default"], store, index) }
        ELSE IF info.type = "BOOLEAN"
        THEN { Outcome([g EXCEPT !.value = b, !.answer = b, !.source = "confirm",
                                 !.prompted = @ + 1], store, index)
               : b \in {TrueValue, FalseValue} }
        ELSE IF info.type = "ENUM"
        THEN { Outcome([g EXCEPT !.value = c, !.answer = c, !.source = "enum",
                                 !.prompted = @ + 1], store, index)
               : c \in Range(info.enum_values) }
        ELSE LookupOutcomes(g, store, index, ps)

\* line 239: the parameter is classified, once
ShortcutOutcomes(f, store, index, ps) ==
    UNION { ClassifiedOutcomes(f, info, store, index, ps)
            : info \in {detect_parameter_type(f.name, f.info)} }

\* line 229: "if cached_value"
CacheHit(cached) == Truthy(cached)

\* lines 211-283: a call from its entry to its first return, or to the loop
\* over the selected provider's parameters
EntryOutcomes(f, store, index, ps) ==
    IF InResolvingStack(f.name, f.stack_in)
    THEN CycleOutcomes(f, store, index)
    ELSE IF CacheHit(f.cached)
    THEN { Outcome([f EXCEPT !.value = f.cached, !.source = "cache"], store, index) }
    ELSE ShortcutOutcomes(f, store, index, ps)

\* the row prompt of select_from_response is shown for a list that is not empty
RowPrompts(r) == IF r.kind \in {"datalist", "list"} /\ r.rows # <<>> THEN 1 ELSE 0

\* lines 310-324: a value is taken from the provider's answer r
ExecuteOutcomes(f, r, store, index) ==
    LET g == [f EXCEPT !.executed = @ + 1]
    IN  IF ResponseTruthy(r)
        THEN UNION { IF v # NoneValue
                     THEN { Outcome([g EXCEPT !.pc = "return", !.value = v,
                                              !.source = "provider",
                                              !.prompted = @ + RowPrompts(r)],
                                    save_context(store, f.name, v), index) }
                     ELSE ManualOutcomes([g EXCEPT !.prompted = @ + RowPrompts(r)],
                                         store, index)
                     : v \in select_from_response(r, f.name) }
        ELSE ManualOutcomes(g, store, index)

MaxCalls == 2        \* top-level calls per session

Top == frames[Len(frames)]

\* a call is entered on top of the activation records base
Enter(p, stk, base) ==
    \E f \in {NewFrame(p.name, p, stk, context)} :
        \E o \in EntryOutcomes(f, context, param_to_providers, paths) :
            /\ frames' = Append(base, o.frame)
            /\ context' = o.store
            /\ param_to_providers' = o.index
            /\ rstack' = IF o.frame.cyc THEN stk ELSE stk \cup {p.name}

\* the documents the resolver is run on: /merchants and /locations are in
\* the client mapping, /merchants/{merchantId} is not
MerchantParamLists ==
    { <<>>,
      <<Param("locationId", TRUE)>>,
      <<TypedParam("page", TRUE, "integer"), TypedParam("active", TRUE, "boolean")>> }

LocationParamLists ==
    { <<>>,
      <<Param("merchantId", TRUE)>>,
      <<TypedParam("limit", FALSE, "integer"), Param("merchantId", TRUE),
        TypedParam("offset", TRUE, "integer")>>,
      <<TypedParam("flag", TRUE, NoneValue)>> }

ResolveDocuments ==
    { <<Entry("/merchants", "get", pm, nm),
        Entry("/locations", "get", pl, {"locationId"}),
        Entry("/merchants/{merchantId}", "get", <<Param("merchantId", TRUE)>>, {"detailId"})>>
      : pm \in MerchantParamLists,
        nm \in {{"merchantId"}, {"merchantId", "offset"}},
        pl \in LocationParamLists }

EnumParam(n, values) ==
    [name |-> n, required |-> TRUE, type |-> "string", format |-> "",
     hasEnum |-> TRUE, enum |-> values]

\* the parameters a top-level call is made for
ResolveInputs ==
    { Param("merchantId", TRUE), Param("locationId", TRUE), Param("note", TRUE),
      TypedParam("page", TRUE, "integer"), TypedParam("limit", TRUE, "integer"),
      TypedParam("offset", TRUE, "integer"), Param("detailId", TRUE),
      TypedParam("active", TRUE, "boolean"), TypedParam("flag", TRUE, NoneValue),
      EnumParam("status", <<"open", "closed">>) }

ResolveNames == { p.name : p \in ResolveInputs }

MaxResolveDepth == Cardinality(ResolveNames) + 3

\* a top-level call: _resolving_stack is None and becomes a fresh set
ResolveCall(p) ==
    /\ frames = <<>>
    /\ calls < MaxCalls
    /\ calls' = calls + 1
    /\ Enter(p, {}, <<>>)
    /\ UNCHANGED ret
    /\ UNCHANGED <<paths, schemas, dependency_graph, planVars, classVars, callVars>>

\* lines 294-305: the loop reaches a required parameter and resolves it
CallDependency ==
    /\ frames # <<>>
    /\ Top.pc = "loop"
    /\ Top.idx <= Len(ProviderParams(paths, Top.provider))
    /\ ProviderParams(paths, Top.provider)[Top.idx].required
    /\ Len(frames) < MaxResolveDepth
    /\ \E p \in {ProviderParams(paths, Top.provider)[Top.idx]} : Enter(p, rstack, frames)
    /\ UNCHANGED <<ret, calls>>
    /\ UNCHANGED <<paths, schemas, dependency_graph, planVars, classVars, callVars>>

\* lines 294-296: the loop passes a parameter that is not required
SkipOptional ==
    /\ frames # <<>>
    /\ Top.pc = "loop"
    /\ Top.idx <= Len(ProviderParams(paths, Top.provider))
    /\ ~ProviderParams(paths, Top.provider)[Top.idx].required
    /\ frames' = [frames EXCEPT ![Len(frames)].idx = @ + 1]
    /\ UNCHANGED <<context, rstack, ret, calls>>
    /\ UNCHANGED <<analyzerVars, planVars, classVars, callVars>>

\* lines 308-324: after the loop, the provider is called
ExecuteProvider ==
    /\ frames # <<>>
    /\ Top.pc = "loop"
    /\ Top.idx > Len(ProviderParams(paths, Top.provider))
    /\ \E f \in {Top}, r \in execute_endpoint(Top.provider) :
          \E o \in ExecuteOutcomes(f, r, context, param_to_providers) :
             /\ frames' = [frames EXCEPT ![Len(frames)] = o.frame]
             /\ context' = o.store
    /\ UNCHANGED <<rstack, ret, calls>>
    /\ UNCHANGED <<analyzerVars, planVars, classVars, callVars>>

ReturnRecord(f, source, stackOut) ==
    [name |-> f.name, info |-> f.info, value |-> f.value, source |-> source,
     stored |-> get_value(context, f.name), cached |-> f.cached,
     cyc |-> f.cyc, cut |-> f.cut, classified |-> f.classified, looked_up |-> f.looked_up,
     executed |-> f.executed, prompted |-> f.prompted, answer |-> f.answer,
     depth |-> Len(frames), stack_in |-> f.stack_in, stack_out |-> stackOut]

\* the finally clause run by every call, the one that returned at line 221
\* included
StackAlwaysDiscards(f, stk) == stk \ {f.name}

\* lines 325-327: the finally clause, which a call that returned at line 221
\* never entered
StackAfter(f, stk) == IF f.cyc THEN stk ELSE stk \ {f.name}

\* the innermost call returns its value: to line 306 of its caller, or to
\* the caller of the top-level call
Return ==
    /\ frames # <<>>
    /\ Top.pc = "return"
    /\ ret' = ReturnRecord(Top, Top.source, StackAfter(Top, rstack))
    /\ rstack' = StackAfter(Top, rstack)
    /\ frames' = IF Len(frames) = 1 THEN <<>>
                 ELSE [SubSeq(frames, 1, Len(frames) - 1) EXCEPT
                          ![Len(frames) - 1].idx = @ + 1,
                          ![Len(frames) - 1].cut = @ \/ Top.cyc \/ Top.cut,
                          ![Len(frames) - 1].args =
                              IF Top.value # NoneValue
                              THEN save_context(@, Top.name, Top.value) ELSE @]
    /\ UNCHANGED <<context, calls>>
    /\ UNCHANGED <<analyzerVars, planVars, classVars, callVars>>

\* an exception leaves the innermost call through its finally clause and
\* reaches the caller at line 297
Unwind ==
    /\ frames # <<>>
    /\ Top.pc = "raise"
    /\ ret' = ReturnRecord(Top, "raise", StackAfter(Top, rstack))
    /\ rstack' = StackAfter(Top, rstack)
    /\ frames' = IF Len(frames) = 1 THEN <<>>
                 ELSE [SubSeq(frames, 1, Len(frames) - 1) EXCEPT
                          ![Len(frames) - 1].pc = "raise",
                          ![Len(frames) - 1].cut = @ \/ Top.cyc \/ Top.cut,
                          ![Len(frames) - 1].source = "raise"]
    /\ UNCHANGED <<context, calls>>
    /\ UNCHANGED <<analyzerVars, planVars, classVars, callVars>>

ResolveStep == CallDependency \/ SkipOptional \/ ExecuteProvider \/ Return \/ Unwind

ResolveInit ==
    /\ paths \in ResolveDocuments
    /\ schemas = <<>>
    /\ param_to_providers = analyze_parameters(paths, schemas)
    /\ dependency_graph = build_dependency_graph(paths, param_to_providers)
    /\ PlanIdle
    /\ ClassIdle
    /\ CallsIdle
    /\ ResolveIdle

ResolveNext ==
    \/ \E p \in ResolveInputs : ResolveCall(p)
    \/ ResolveStep

SpecResolve == ResolveInit /\ [][ResolveNext]_vars

\* the interpreter runs a started call on; prompts and client calls return
FairSpecResolve == SpecResolve /\ WF_vars(ResolveStep)

(***************************************************************************)
(* Interactive resolver: properties.  ret describes the latest call that   *)
(* returned: what it was entered with (name, info, stack_in, cached), what *)
(* it did, and what the context store held for its name as it returned.    *)
(***************************************************************************)
Returned == ret.source \notin {"none", "raise"}

\* C5: a call entered for a name already in the resolving stack asks the
\* operator once and returns that answer, without classifying, without a
\* provider lookup and without calling execute_endpoint.
CycleReturnsManualAnswer ==
    /\ (Returned /\ ret.name \in ret.stack_in) =>
          /\ ret.source = "manual"
          /\ ret.prompted = 1
          /\ ret.value = ret.answer
          /\ ~ret.classified /\ ~ret.looked_up /\ ret.executed = 0
    /\ \A i \in DOMAIN frames :
          frames[i].name \in frames[i].stack_in =>
             /\ frames[i].pc = "return"
             /\ frames[i].source = "manual"
             /\ ~frames[i].classified /\ ~frames[i].looked_up /\ frames[i].executed = 0

\* a nested call found its name in the stack and has returned
CycleCallReturned ==
    /\ Returned
    /\ ret.name \in ret.stack_in
    /\ ret.depth >= 2

CacheShortCircuits ==
    (Returned /\ ret.name \notin ret.stack_in /\ ret.cached # NoneValue) =>
        /\ ret.value = ret.cached
        /\ ret.executed = 0
        /\ ret.prompted = 0

\* C8: a parameter classified Pagination, with nothing cached, is resolved to
\* the fixed default (1 for page, 50 otherwise) without a provider call.
PaginationReturnsDefault ==
    (/\ Returned
     /\ ret.name \notin ret.stack_in
     /\ ret.cached = NoneValue
     /\ ~ret.info.hasEnum
     /\ Lower[ret.name] \in pagination_params) =>
        /\ ret.value = (IF Lower[ret.name] = "page" THEN PageDefault ELSE SizeDefault)
        /\ ret.executed = 0

\* C9: a value that was not read from the cache is in the context store,
\* under the parameter's name, when the call returns it.
ReturnedValueStored ==
    (Returned /\ ret.source # "cache") => ret.stored = ret.value

(***************************************************************************)
(* Classifier: one detect_parameter_type call (the function is pure).      *)
(***************************************************************************)
ClassifyNames ==
    { "merchantId", "MerchantId", "userIds", "user_id", "id", "ID", "uuid", "paid",
      "page", "Page", "pageSize", "limit", "offset", "per_page", "cursor", "start",
      "startDate", "createdAt", "updatedDateTime", "dateTimeUtc", "created", "format",
      "search", "searchTerm", "searchDate", "searchId", "queryText", "nameFilter",
      "status", "name", "isActive", "count", "test" }

ClassifySchemas ==
    { [type |-> t, format |-> f, hasEnum |-> e, enum |-> IF e THEN <<"open", "closed">> ELSE <<>>]
      : t \in {"", "string", "boolean", "integer", "number", "Boolean", "custom_type", NoneValue},
        f \in {"", "date-time"},
        e \in BOOLEAN }

Classify(name, schema) ==
    /\ cname = ""
    /\ cname' = name
    /\ cschema' = schema
    /\ cinfo' = detect_parameter_type(name, schema)
    /\ UNCHANGED <<analyzerVars, planVars, resolveVars, callVars>>

ClassifyInit ==
    /\ paths = <<>>
    /\ schemas = <<>>
    /\ param_to_providers = analyze_parameters(paths, schemas)
    /\ dependency_graph = build_dependency_graph(paths, param_to_providers)
    /\ PlanIdle
    /\ ClassIdle
    /\ CallsIdle
    /\ ResolveIdle

ClassifyNext == \E name \in ClassifyNames, schema \in ClassifySchemas : Classify(name, schema)

SpecClassify == ClassifyInit /\ [][ClassifyNext]_vars

\* the category the decision order of the classifier assigns
RuleOrderCategory(name, schema) ==
    IF schema.hasEnum THEN "ENUM"
    ELSE IF is_foreign_key(name) THEN "FOREIGN_KEY"
    ELSE IF Lower[name] \in pagination_params THEN "PAGINATION"
    ELSE IF MatchesDatePatterns(name)
    THEN (IF schema.format = "date-time" \/ Contains[Lower[name], "datetime"]
          THEN "DATETIME" ELSE "DATE")
    ELSE IF MatchesFilterPatterns(name)
    THEN (IF Contains[Lower[name], "search"] THEN "SEARCH" ELSE "FILTER")
    ELSE IF Lower[schema.type] = "boolean" THEN "BOOLEAN"
    ELSE IF Lower[schema.type] \in {"integer", "number"} THEN "NUMERIC"
    ELSE IF Lower[schema.type] = "string" THEN "STRING"
    ELSE "UNKNOWN"

\* C10: for every name and schema fragment detect_parameter_type returns the
\* category of the first matching rule of the decision order.
DetectFollowsRuleOrder ==
    cname # "" => (~cinfo.raised /\ cinfo.type = RuleOrderCategory(cname, cschema))

\* the same, for the fragments whose declared type is a string or absent
DetectFollowsRuleOrderOnStrings ==
    (cname # "" /\ cschema.type # NoneValue) =>
        (~cinfo.raised /\ cinfo.type = RuleOrderCategory(cname, cschema))

\* no rule of the decision order matches the name and the fragment
NoRuleMatches(name, schema) ==
    /\ ~schema.hasEnum
    /\ ~is_foreign_key(name)
    /\ Lower[name] \notin pagination_params
    /\ ~MatchesDatePatterns(name)
    /\ ~MatchesFilterPatterns(name)
    /\ Lower[schema.type] \notin {"boolean", "integer", "number", "string"}

\* C11: detect_parameter_type never raises: every call returns a
\* ParameterInfo, and a combination no rule recognises yields Unknown.
DetectNeverRaises ==
    cname # "" =>
        /\ ~cinfo.raised
        /\ NoRuleMatches(cname, cschema) => cinfo.type = "UNKNOWN"

\* the innermost call is about to call its provider (line 308)
AtExecute ==
    /\ frames # <<>>
    /\ Top.pc = "loop"
    /\ Top.idx > Len(ProviderParams(paths, Top.provider))

\* C12: when automation cannot produce a value (no provider for the name; the
\* provider call fails, is unmapped or returns nothing; nothing can be
\* extracted) the operator's manual answer is stored and returned; the
\* provider call raises nothing into the resolver and is made at most once.
ManualFallback ==
    /\ [](Returned /\ ~ret.cyc /\ ret.looked_up /\ ret.source # "raise" =>
            /\ ret.executed <= 1
            /\ ret.source \in {"provider", "manual"}
            /\ ret.source = "provider" =>
                  ret.executed = 1 /\ ret.value # NoneValue /\ ret.stored = ret.value
            /\ ret.source = "manual" =>
                  ret.prompted >= 1 /\ ret.value = ret.answer /\ ret.stored = ret.value)
    /\ [](Returned /\ ret.source = "raise" => ret.executed = 0)
    /\ [][AtExecute =>
            /\ Len(frames') = Len(frames)
            /\ frames'[Len(frames)].pc = "return"
            /\ frames'[Len(frames)].executed = Top.executed + 1
            /\ Top.provider \notin endpoint_mapping =>
                  frames'[Len(frames)].source = "manual"]_vars

\* a call whose provider gave nothing usable has returned the manual answer
FallbackAfterProviderReturned ==
    /\ Returned
    /\ ret.executed = 1
    /\ ret.source = "manual"
    /\ ret.stored = ret.answer

\* a call whose provider is not in the client mapping has returned
UnmappedProviderReturned ==
    /\ Returned
    /\ ret.executed = 1
    /\ ret.source = "manual"
    /\ ret.name = "detailId"
    /\ find_parameter_providers(param_to_providers, "detailId") = <<"/merchants/{merchantId}">>


(***************************************************************************)
(* DependencyAnalyzer.__init__ on a wider family of documents: operations  *)
(* that are not GET, method keys in upper case, responses that are not a   *)
(* success, schemas behind a $ref, properties nested one and two levels    *)
(* down, parameters of many names.                                         *)
(***************************************************************************)
RefA == "#/components/schemas/A"
RefMissing == "#/components/schemas/Missing"

\* components.schemas: empty, or one schema A with the property refId
AnalyzeRegistries ==
    { <<>>, [A |-> [properties |-> [n \in {"refId"} |-> StringProp]]] }

ObjectProp(names) ==
    [type |-> "object", ref |-> "", names |-> names, hasItems |-> FALSE,
     items |-> [ref |-> "", names |-> {}]]

ArrayProp(itemRef, names) ==
    [type |-> "array", ref |-> "", names |-> {}, hasItems |-> TRUE,
     items |-> [ref |-> itemRef, names |-> names]]

\* an object property whose property "inner" is itself an object with the
\* property deepId (below: what lies under the property's own properties)
DeepProp ==
    [type |-> "object", ref |-> "", names |-> {"inner"}, hasItems |-> FALSE,
     items |-> [ref |-> "", names |-> {}], below |-> {"deepId"}]

Response(status, ref, props) == [status |-> status, ref |-> ref, properties |-> props]

\* the responses dicts tried
AnalyzeResponses ==
    { <<>>,
      <<Response("200", "", [n \in {"aId"} |-> StringProp])>>,
      <<Response("404", "", [n \in {"key"} |-> StringProp])>>,
      <<Response("200", RefA, <<>>)>>,
      <<Response("200", RefMissing, <<>>)>>,
      <<Response("200", "", [n \in {"data"} |-> ObjectProp({"key"})])>>,
      <<Response("200", "", [n \in {"data"} |-> ArrayProp("", {"aId"})])>>,
      <<Response("200", "", [n \in {"data"} |-> ArrayProp(RefA, {})])>>,
      <<Response("201", "", [n \in {"data"} |-> DeepProp])>>,
      <<Response("200", "", [n \in {"key"} |-> StringProp]),
        Response("500", "", [n \in {"aId"} |-> StringProp])>> }

\* the parameter lists tried for /a
AnalyzeParamLists ==
    { <<>>,
      <<Param("aId", TRUE)>>,
      <<Param("aId", FALSE)>>,
      <<Param("key", TRUE)>>,
      <<Param("refId", TRUE), Param("key", FALSE)>>,
      <<Param("aId", TRUE), Param("key", TRUE)>> }

\* the parameter names tried for /b, one parameter each
AnalyzeParamNames ==
    { "userId", "user_id", "merchantIds", "uuid", "UUID", "id", "ID", "Id",
      "name", "email", "identifier", "" }

AnalyzeMethods == { "get", "GET", "post" }

AnalyzeEntry(p, m, params, resps) ==
    [path |-> p, method |-> m, parameters |-> params, responses |-> resps]

AnalyzeDocuments ==
    { <<AnalyzeEntry(PathNames[1], ma, pa, ra), AnalyzeEntry(PathNames[2], mb, <<Param(nb, TRUE)>>, <<>>)>>
      : ma \in AnalyzeMethods, pa \in AnalyzeParamLists, ra \in AnalyzeResponses,
        mb \in {"get", "post"}, nb \in AnalyzeParamNames }
    \cup
    { <<AnalyzeEntry(PathNames[1], ma, pa, <<>>), AnalyzeEntry(PathNames[2], mb, pb, rb)>>
      : ma \in {"get", "post"}, pa \in AnalyzeParamLists,
        mb \in AnalyzeMethods, pb \in { <<>>, <<Param("aId", FALSE)>> }, rb \in AnalyzeResponses }

\* every name the documents mention
AnalyzeNames ==
    AnalyzeParamNames \cup {"aId", "key", "refId", "data", "inner", "deepId"}

\* __init__, lines 16-19: the document is stored, nothing analysed yet
AnalyzeInit ==
    /\ paths \in AnalyzeDocuments
    /\ schemas \in AnalyzeRegistries
    /\ param_to_providers = <<>>
    /\ dependency_graph = <<>>
    /\ ppc = "paths"
    /\ target_endpoint = ""
    /\ required_params = <<>>
    /\ roots = <<>>
    /\ vstack = <<>>
    /\ visited = {}
    /\ plan = <<>>
    /\ ordered = <<>>
    /\ ClassIdle
    /\ CallsIdle
    /\ ResolveIdle

\* __init__, line 20
AnalyzeParameters ==
    /\ ppc = "paths"
    /\ param_to_providers' = analyze_parameters(paths, schemas)
    /\ ppc' = "index"
    /\ UNCHANGED <<paths, schemas, dependency_graph>>
    /\ UNCHANGED <<target_endpoint, required_params, roots, vstack, visited, plan, ordered>>
    /\ UNCHANGED <<classVars, resolveVars, callVars>>

\* __init__, line 21
BuildDependencyGraph ==
    /\ ppc = "index"
    /\ dependency_graph' = build_dependency_graph(paths, param_to_providers)
    /\ ppc' = "idle"
    /\ UNCHANGED <<paths, schemas, param_to_providers>>
    /\ UNCHANGED <<target_endpoint, required_params, roots, vstack, visited, plan, ordered>>
    /\ UNCHANGED <<classVars, resolveVars, callVars>>

AnalyzeNext == AnalyzeParameters \/ BuildDependencyGraph

SpecAnalyze == AnalyzeInit /\ [][AnalyzeNext]_vars

\* the Provider Index has been built
IndexBuilt == ppc \in {"index", "idle"}

\* the endpoint path is listed under the name
Listed(path, name) ==
    /\ name \in DOMAIN param_to_providers
    /\ path \in Range(param_to_providers[name])

\* a success response: a 2xx key of the responses dict
IsSuccess(status) == StartsWith[status, "2"]

\* the response's schema exposes the name directly, behind one $ref, or one
\* level down in an object-typed property or the items of an array-typed one
Exposes(resp, name, reg) ==
    \/ name \in _extract_properties(resp, reg)
    \/ name \in _extract_nested_properties(resp, reg)

\* C13: in the Provider Index an endpoint is listed under a name if and only
\* if its GET operation has a success response whose schema exposes the name
\* (directly, through one $ref, or one level down) or its GET operation
\* declares the name as a parameter of foreign-key shape; operations that
\* are not GET, responses that are not a success and deeper properties never
\* list it.
IndexIffSuccessResponseOrForeignKey ==
    IndexBuilt =>
      \A k \in 1..Len(paths) : \A name \in AnalyzeNames :
         Listed(paths[k].path, name)
           <=> /\ Lower[paths[k].method] = "get"
               /\ \/ \E i \in 1..Len(paths[k].responses) :
                        /\ IsSuccess(paths[k].responses[i].status)
                        /\ Exposes(paths[k].responses[i], name, schemas)
                  \/ \E i \in 1..Len(paths[k].parameters) :
                        /\ paths[k].parameters[i].name = name
                        /\ _is_foreign_key(name)


\* the only way the path of a GET entry without responses gets listed under
\* one of its declared names is line 48: _is_foreign_key accepted the name
AcceptedByAnalyzer(k, i) == Listed(paths[k].path, paths[k].parameters[i].name)

\* C14: DependencyAnalyzer._is_foreign_key accepts exactly the names of the
\* foreign-key pattern (ending in Id, Ids or _id, or id or uuid in any letter
\* case), in agreement with ParameterDetector.is_foreign_key: a declared
\* parameter registers its GET endpoint if and only if the detector calls
\* the name a foreign key.
AnalyzerForeignKeyAgreesWithDetector ==
    IndexBuilt =>
      \A k \in 1..Len(paths) :
         Lower[paths[k].method] = "get" /\ paths[k].responses = <<>> =>
           \A i \in 1..Len(paths[k].parameters) :
              AcceptedByAnalyzer(k, i) <=> is_foreign_key(paths[k].parameters[i].name)


\* the dependency graph has been built
GraphBuilt == ppc = "idle" /\ paths \in AnalyzeDocuments

GetPaths == { paths[k].path : k \in { j \in 1..Len(paths) : Lower[paths[j].method] = "get" } }

\* C15: every GET endpoint is a key of the dependency graph, and its set is
\* exactly the endpoints listed in the Provider Index under one of its
\* required parameters, itself excluded; optional parameters add nothing and
\* an endpoint without required parameters has the empty set.
GraphIsProvidersOfRequired ==
    GraphBuilt =>
      /\ DOMAIN dependency_graph = GetPaths
      /\ \A k \in 1..Len(paths) :
            Lower[paths[k].method] = "get" =>
              /\ \A q \in dependency_graph[paths[k].path] \cup Range(PathNames) :
                    q \in dependency_graph[paths[k].path]
                      <=> /\ q # paths[k].path
                          /\ \E i \in 1..Len(paths[k].parameters) :
                                /\ paths[k].parameters[i].required
                                /\ Listed(q, paths[k].parameters[i].name)
              /\ (\A i \in 1..Len(paths[k].parameters) : ~paths[k].parameters[i].required)
                    => dependency_graph[paths[k].path] = {}

\* a GET endpoint whose optional parameter has another endpoint as provider
\* got the empty dependency set, and one with a required parameter did not
OptionalParameterHasProvider ==
    /\ GraphBuilt
    /\ \E k \in 1..Len(paths) :
          /\ Lower[paths[k].method] = "get"
          /\ dependency_graph[paths[k].path] = {}
          /\ \E i \in 1..Len(paths[k].parameters) :
                /\ ~paths[k].parameters[i].required
                /\ \E q \in Range(PathNames) \ {paths[k].path} :
                      Listed(q, paths[k].parameters[i].name)


(***************************************************************************)
(* get_likely_provider called on its own, over names built from a stem and *)
(* an ending; the Optional[str] it returns is kept in cinfo.likely_provider*)
(***************************************************************************)
ProviderStems ==
    { "", "customer", "category", "merchant", "Merchant", "MERCHANT", "user",
      "x_", "pa", "uu", "delivery", "name" }

ProviderEndings == { "", "Id", "id", "Ids", "ids", "_id", "ID", "IDS", "er" }

ProviderNames == { stem \o ending : stem \in ProviderStems, ending \in ProviderEndings }

GetLikelyProvider(name) ==
    /\ cname' = name
    /\ cschema' = NoSchemaFragment
    /\ cinfo' = [Info("UNKNOWN", NoSchemaFragment) EXCEPT
                    !.likely_provider = get_likely_provider(name)]
    /\ UNCHANGED <<analyzerVars, planVars, resolveVars, callVars>>

ProviderNext == \E name \in ProviderNames : GetLikelyProvider(name)

SpecProvider == ClassifyInit /\ [][ProviderNext]_vars

\* the keys of the built-in table that equal the name up to letter case
TableKeys(name) ==
    { i \in DOMAIN reference_patterns : Lower[reference_patterns[i][1]] = Lower[name] }

IdSuffixes == { "_id", "Ids", "ids", "Id", "id" }

\* the name without its id suffix: the longest of the suffixes it ends in
WithoutIdSuffix(name) ==
    LET ends == { suf \in IdSuffixes : EndsWith[name, suf] }
    IN  IF ends = {} THEN name
        ELSE LET longest == CHOOSE suf \in ends : \A t \in ends : Len(t) <= Len(suf)
             IN  SubSeq(name, 1, Len(name) - Len(longest))

\* C17 as stated: a name in the table (exactly or up to letter case) gets the
\* mapped resource; any other name of foreign-key shape gets the name without
\* its id suffix, lower-cased, with "s" appended; every other name gets None.
LikelyProviderPluralizesEveryForeignKey ==
    IF TableKeys(cname) # {}
    THEN \E i \in TableKeys(cname) : cinfo.likely_provider = reference_patterns[i][2]
    ELSE IF is_foreign_key(cname)
         THEN cinfo.likely_provider = Lower[WithoutIdSuffix(cname)] \o "s"
         ELSE cinfo.likely_provider = NoneValue

\* C17 as amended: as stated, except that a name of foreign-key shape that
\* is nothing but an id suffix (id, Id, ids, Ids, _id) gets None.
LikelyProviderPluralizesNonEmptyBase ==
    IF TableKeys(cname) # {}
    THEN \E i \in TableKeys(cname) : cinfo.likely_provider = reference_patterns[i][2]
    ELSE IF is_foreign_key(cname) /\ WithoutIdSuffix(cname) # ""
         THEN cinfo.likely_provider = Lower[WithoutIdSuffix(cname)] \o "s"
         ELSE cinfo.likely_provider = NoneValue

\* get_likely_provider was called on a name with a plural suffix that is
\* not in the table, and on nothing but a suffix
PluralNameInferred ==
    /\ cname = "customerIds"
    /\ TableKeys(cname) = {}
    /\ cinfo.likely_provider = "customers"


(***************************************************************************)
(* select_from_response, one step per Prompt.ask of its row loop.          *)
(***************************************************************************)
MaxAsk == 2          \* row prompts answered in one call

\* the responses select_from_response is called with (the resolver calls it
\* on truthy responses only)
SelectResponses ==
    { r \in ClientResponses : ResponseTruthy(r) }
    \cup
    { [kind |-> "datalist", fields |-> <<>>,
       rows |-> << << <<"merchantId", "m1">>, <<"name", "n1">> >>,
                   << <<"merchantId", "m2">>, <<"name", "n2">> >>,
                   << <<"merchantId", "m3">>, <<"name", "n3">> >> >>],
      [kind |-> "datalist", fields |-> << <<"merchantId", "top">> >>,
       rows |-> << << <<"merchantId", "m1">> >>, << <<"merchantId", ZeroValue>> >> >>],
      [kind |-> "list", fields |-> <<>>,
       rows |-> << << <<"id", "i1">>, <<"name", "">> >>,
                   << <<"merchantId", "m2">>, <<"name", "n2">> >> >>] }

SelectNames == { "merchantId", "locationId", "name" }

\* what the operator can type at the row prompt
RowChoices == { "0", "1", "2", "3", "-1", "x", "" }

\* int(choice) raises ValueError when the text is no number
IsNumber(choice) == choice \in {"0", "1", "2", "3", "-1"}

\* int(choice) for a text that is a number
ParseInt(choice) ==
    CASE choice = "0" -> 0
      [] choice = "1" -> 1
      [] choice = "2" -> 2
      [] choice = "3" -> 3
      [] choice = "-1" -> -1

\* lines 146-150 and 198: the list to choose from, if there is one
HasRows(response) == response.kind \in {"datalist", "list"} /\ response.rows # <<>>

\* lines 146-163, or line 198 when there is no list to choose from
SelectCall(response, name) ==
    /\ sel.pc = "idle"
    /\ sel' = IF HasRows(response)
              THEN [pc |-> "prompt", response |-> response, name |-> name,
                    asked |-> 0, row |-> -1, value |-> NoneValue]
              ELSE [pc |-> "returned", response |-> response, name |-> name,
                    asked |-> 0, row |-> -1,
                    value |-> extract_id_from_response(response.fields,
                                  response.kind = "datalist", response.rows, name)]
    /\ UNCHANGED <<analyzerVars, planVars, classVars, resolveVars>>
    /\ UNCHANGED <<breaker, bcall, now, retry, adaptive>>

\* lines 164-189: one pass of the while loop
AskRow(choice) ==
    /\ sel.pc = "prompt"
    /\ sel.asked < MaxAsk
    /\ sel' = IF ~IsNumber(choice)
              THEN [sel EXCEPT !.asked = @ + 1]
              ELSE IF 0 <= ParseInt(choice) /\ ParseInt(choice) < Len(sel.response.rows)
              THEN [sel EXCEPT !.asked = @ + 1, !.pc = "returned",
                               !.row = ParseInt(choice),
                               !.value = RowValue(sel.response.rows, ParseInt(choice), sel.name)]
              ELSE [sel EXCEPT !.asked = @ + 1]
    /\ UNCHANGED <<analyzerVars, planVars, classVars, resolveVars>>
    /\ UNCHANGED <<breaker, bcall, now, retry, adaptive>>

\* the analyzer plays no part in a selection
SelectInit ==
    /\ paths = <<>>
    /\ schemas = <<>>
    /\ param_to_providers = analyze_parameters(paths, schemas)
    /\ dependency_graph = build_dependency_graph(paths, param_to_providers)
    /\ PlanIdle
    /\ ClassIdle
    /\ CallsIdle
    /\ ResolveIdle

SelectNext ==
    \/ \E response \in SelectResponses, name \in SelectNames : SelectCall(response, name)
    \/ \E choice \in RowChoices : AskRow(choice)

SpecSelect == SelectInit /\ [][SelectNext]_vars

\* C18: when the operator picked row i of a list of objects, i is a row of
\* the list, and if row i has a property of the requested name the call
\* returns that property's value of row i.
SelectedRowValueReturned ==
    (sel.pc = "returned" /\ sel.row # -1) =>
       /\ sel.row \in 0..(Len(sel.response.rows) - 1)
       /\ DictHas(sel.response.rows[sel.row + 1], sel.name)
             => sel.value = DictGet(sel.response.rows[sel.row + 1], sel.name)


(***************************************************************************)
(* qapi/circuit_breaker.py: a CircuitBreaker used by one caller at a time. *)
(* The wrapped function returns, raises expected_exception, or raises an   *)
(* exception outside it; time is in whole seconds and None is -1.  _stats  *)
(* is written and never read by the breaker, and is left out.              *)
(***************************************************************************)
MaxTime == 4         \* the clock stops here

\* the constructor arguments tried
BreakerConfigs ==
    [failure_threshold : 1..2, recovery_timeout : 0..2,
     success_threshold : 1..2, half_open_max_calls : 1..2]

\* CircuitBreaker.__init__
NewBreaker(config) ==
    [state |-> "closed",
     failure_threshold |-> config.failure_threshold,
     recovery_timeout |-> config.recovery_timeout,
     success_threshold |-> config.success_threshold,
     half_open_max_calls |-> config.half_open_max_calls,
     failure_count |-> 0, success_count |-> 0, half_open_calls |-> 0,
     last_failure_time |-> -1]

\* CircuitBreaker._should_attempt_reset at time t
_should_attempt_reset(b, t) ==
    /\ b.last_failure_time # -1
    /\ t - b.last_failure_time >= b.recovery_timeout

_transition_to_open(b) == [b EXCEPT !.state = "open"]

_transition_to_half_open(b) ==
    [b EXCEPT !.state = "half_open", !.success_count = 0, !.half_open_calls = 0]

_transition_to_closed(b) ==
    [b EXCEPT !.state = "closed", !.failure_count = 0, !.success_count = 0,
              !.half_open_calls = 0]

\* the state property: the breaker after it was read at time t
state_property(b, t) ==
    IF b.state = "open" /\ _should_attempt_reset(b, t)
    THEN _transition_to_half_open(b) ELSE b

\* the threshold test with > for >=
ThresholdExceeded(count, threshold) == count > threshold

\* self._failure_count >= self.failure_threshold
ThresholdReached(count, threshold) == count >= threshold

\* CircuitBreaker._on_success
_on_success(b) ==
    IF b.state = "half_open"
    THEN IF b.success_count + 1 >= b.success_threshold
         THEN _transition_to_closed([b EXCEPT !.success_count = @ + 1])
         ELSE [b EXCEPT !.success_count = @ + 1]
    ELSE IF b.state = "closed" THEN [b EXCEPT !.failure_count = 0]
    ELSE b

\* CircuitBreaker._on_failure at time t
_on_failure(b, t) ==
    IF b.state = "closed"
    THEN IF ThresholdReached(b.failure_count + 1, b.failure_threshold)
         THEN _transition_to_open([b EXCEPT !.failure_count = @ + 1, !.last_failure_time = t])
         ELSE [b EXCEPT !.failure_count = @ + 1, !.last_failure_time = t]
    ELSE IF b.state = "half_open"
         THEN _transition_to_open([b EXCEPT !.last_failure_time = t])
    ELSE [b EXCEPT !.last_failure_time = t]

\* lines 140-158 of call: how the call is admitted, and the breaker then
Admission(b, t) ==
    LET read == state_property(b, t)
    IN  IF read.state = "open" THEN [outcome |-> "rejected_open", breaker |-> read]
        ELSE IF read.state = "half_open"
             THEN IF read.half_open_calls >= read.half_open_max_calls
                  THEN [outcome |-> "rejected_half", breaker |-> read]
                  ELSE [outcome |-> "admitted",
                        breaker |-> [read EXCEPT !.half_open_calls = @ + 1]]
        ELSE [outcome |-> "admitted", breaker |-> read]

\* lines 160-168 of call: the wrapped function ran with the given result
AfterFunction(b, result, t) ==
    IF result = "success" THEN _on_success(b)
    ELSE IF result = "expected" THEN _on_failure(b, t)
    ELSE b

FunctionResults == { "success", "expected", "other" }

\* what the caller knows after a call: how it ended, and from the calls so
\* far the run of expected_exception failures in CLOSED (streak), whether
\* such a run reached failure_threshold (tripped), when the function last
\* failed (last_fail), and whether this call came inside recovery_timeout
\* of that failure after tripping (early); and, since the breaker last
\* entered HALF_OPEN, how many calls were passed to the function before
\* this one (passed_before) and with it (passed): -1 when it never entered,
\* and counted no further than half_open_max_calls + 1
Observed(outcome, before) ==
    LET early == /\ bcall.tripped
                 /\ now - bcall.last_fail < breaker.recovery_timeout
        streak == IF outcome = "expected" /\ before = "closed" THEN bcall.streak + 1 ELSE 0
        sofar == IF breaker.state = "open" /\ before = "half_open" THEN 0 ELSE bcall.passed
        passed == IF sofar = -1 \/ outcome \notin FunctionResults
                     \/ sofar > breaker.half_open_max_calls
                  THEN sofar ELSE sofar + 1
    IN  [outcome |-> outcome,
         passed |-> passed,
         passed_before |-> sofar,
         invoked |-> outcome \in FunctionResults,
         before |-> before,
         streak |-> streak,
         tripped |-> early \/ streak >= breaker.failure_threshold,
         last_fail |-> IF outcome = "expected" THEN now ELSE bcall.last_fail,
         early |-> early]

\* CircuitBreaker.call(func) with a function that ends in result
BreakerCall(result) ==
    /\ breaker.state # "none"
    /\ \E a \in {Admission(breaker, now)} :
          IF a.outcome = "admitted"
          THEN /\ breaker' = AfterFunction(a.breaker, result, now)
               /\ bcall' = Observed(result, a.breaker.state)
          ELSE /\ breaker' = a.breaker
               /\ bcall' = Observed(a.outcome, a.breaker.state)
    /\ UNCHANGED <<now, sel, retry, adaptive>>
    /\ UNCHANGED <<analyzerVars, planVars, classVars, resolveVars>>

\* the caller reads cb.state
ReadState ==
    /\ breaker.state # "none"
    /\ breaker' = state_property(breaker, now)
    /\ bcall' = IF breaker.state = "open" /\ breaker'.state = "half_open"
                THEN [bcall EXCEPT !.passed = 0] ELSE bcall
    /\ UNCHANGED <<now, sel, retry, adaptive>>
    /\ UNCHANGED <<analyzerVars, planVars, classVars, resolveVars>>

\* a second passes
Tick ==
    /\ now < MaxTime
    /\ now' = now + 1
    /\ UNCHANGED <<breaker, bcall, sel, retry, adaptive>>
    /\ UNCHANGED <<analyzerVars, planVars, classVars, resolveVars>>

BreakerInit ==
    /\ paths = <<>>
    /\ schemas = <<>>
    /\ param_to_providers = analyze_parameters(paths, schemas)
    /\ dependency_graph = build_dependency_graph(paths, param_to_providers)
    /\ PlanIdle
    /\ ClassIdle
    /\ ResolveIdle
    /\ sel = NoSelection
    /\ retry = NoRetry
    /\ adaptive = NoAdaptive
    /\ breaker \in { NewBreaker(config) : config \in BreakerConfigs }
    /\ bcall = NoBreakerCall
    /\ now = 0

BreakerNext ==
    \/ \E result \in FunctionResults : BreakerCall(result)
    \/ ReadState
    \/ Tick

SpecBreaker == BreakerInit /\ [][BreakerNext]_vars

\* C19: once failure_threshold consecutive calls raised expected_exception
\* while the breaker was CLOSED, the breaker is OPEN until recovery_timeout
\* has passed since the last failure, and a call made before that is
\* refused with CircuitBreakerError without the function being invoked; a
\* successful call in CLOSED leaves the failure count at zero.
BreakerOpensAndRejects ==
    /\ (bcall.tripped /\ now - bcall.last_fail < breaker.recovery_timeout)
          => breaker.state = "open"
    /\ bcall.early => (bcall.outcome = "rejected_open" /\ ~bcall.invoked)
    /\ (bcall.outcome = "success" /\ bcall.before = "closed") => breaker.failure_count = 0

\* two failures in a row opened a breaker of threshold 2, and a call made a
\* second later, inside its recovery timeout, was refused
CallRefusedWhileOpen ==
    /\ breaker.failure_threshold = 2
    /\ breaker.recovery_timeout = 2
    /\ bcall.early
    /\ bcall.outcome = "rejected_open"
    /\ now = bcall.last_fail + 1
    /\ breaker.failure_count = 2


(***************************************************************************)
(* qapi/retry.py: exponential_backoff, one step per pass of its for loop.  *)
(* Each pass calls func once; an exception is a record of its class, of    *)
(* what retry_if says about it and of what its should_retry() says.  The   *)
(* length of a sleep plays no part below and is left out.  With            *)
(* max_retries >= 0 the last pass returns or raises, so line 155 is never  *)
(* reached.                                                                *)
(***************************************************************************)
MaxRetries == 2      \* largest max_retries tried

\* the superclasses of the exception classes func raises
Superclasses(cls) ==
    CASE cls = "ValueError" -> {"ValueError", "Exception"}
      [] cls = "TypeError" -> {"TypeError", "Exception"}
      [] cls = "RetryableError" -> {"RetryableError", "APIError", "Exception"}

\* what one func() call can do
FuncOutcomes ==
    { [kind |-> "ok", cls |-> "", accept |-> TRUE, refuses |-> FALSE] }
    \cup
    { [kind |-> "raise", cls |-> c, accept |-> a, refuses |-> r]
      : c \in {"ValueError", "TypeError", "RetryableError"}, a \in BOOLEAN, r \in BOOLEAN }

\* the retry_on arguments tried: None, the empty tuple, (ValueError,)
RetryOnChoices == { [given |-> FALSE, types |-> {}],
                    [given |-> TRUE, types |-> {}],
                    [given |-> TRUE, types |-> {"ValueError"}] }

\* line 108: retry_on = retry_on or (Exception,)
EffectiveRetryOn(retry_on) ==
    IF retry_on.given /\ retry_on.types # {} THEN retry_on.types ELSE {"Exception"}

\* except retry_on as e
Caught(e, retry_on) == Superclasses(e.cls) \cap EffectiveRetryOn(retry_on) # {}

\* the custom condition ignored
RetryAlwaysAccepted(has_retry_if, e) == TRUE

\* lines 121-124: "if retry_if and not retry_if(e): raise" lets the loop go on
RetryAccepted(has_retry_if, e) == ~has_retry_if \/ e.accept

\* lines 126-129: isinstance(e, RetryableError) and not e.should_retry()
RefusesRetry(e) == "RetryableError" \in Superclasses(e.cls) /\ e.refuses

RetryCall(max_retries, retry_on, has_retry_if) ==
    /\ retry.pc = "idle"
    /\ retry' = [pc |-> "loop", max_retries |-> max_retries, retry_on |-> retry_on,
                 has_retry_if |-> has_retry_if, attempt |-> 0, invoked |-> 0,
                 slept |-> 0, log |-> <<>>, raised |-> 0]
    /\ UNCHANGED <<sel, breaker, bcall, now, adaptive>>
    /\ UNCHANGED <<analyzerVars, planVars, classVars, resolveVars>>

\* lines 111-153: one pass of the loop, func() ending in outcome e
Attempt(e) ==
    /\ retry.pc = "loop"
    /\ retry.attempt <= retry.max_retries
    /\ retry' =
         LET r == [retry EXCEPT !.invoked = @ + 1, !.log = Append(@, e)]
             raise == [r EXCEPT !.pc = "raised", !.raised = Len(r.log)]
         IN  IF e.kind = "ok" THEN [r EXCEPT !.pc = "returned"]
             ELSE IF ~Caught(e, retry.retry_on) THEN raise
             ELSE IF retry.attempt >= retry.max_retries THEN raise
             ELSE IF ~RetryAccepted(retry.has_retry_if, e) THEN raise
             ELSE IF RefusesRetry(e) THEN raise
             ELSE [r EXCEPT !.slept = @ + 1, !.attempt = @ + 1]
    /\ UNCHANGED <<sel, breaker, bcall, now, adaptive>>
    /\ UNCHANGED <<analyzerVars, planVars, classVars, resolveVars>>

RetryInit ==
    /\ paths = <<>>
    /\ schemas = <<>>
    /\ param_to_providers = analyze_parameters(paths, schemas)
    /\ dependency_graph = build_dependency_graph(paths, param_to_providers)
    /\ PlanIdle
    /\ ClassIdle
    /\ CallsIdle
    /\ ResolveIdle

RetryNext ==
    \/ \E m \in 0..MaxRetries, retry_on \in RetryOnChoices, has_retry_if \in BOOLEAN :
          RetryCall(m, retry_on, has_retry_if)
    \/ \E e \in FuncOutcomes : Attempt(e)

SpecRetry == RetryInit /\ [][RetryNext]_vars

\* the exception is of one of the types the caller passed as retry_on
\* (Exception when none was passed)
OfGivenRetryType(e) ==
    Superclasses(e.cls) \cap (IF retry.retry_on.given THEN retry.retry_on.types
                              ELSE {"Exception"}) # {}

\* retry_if, when there is one, returned False for the exception
RejectedByRetryIf(e) == retry.has_retry_if /\ ~e.accept

\* attempt i ended the call: its exception was re-raised with no further
\* invocation and no sleep
EndedAt(i) ==
    /\ retry.pc = "raised"
    /\ retry.raised = i
    /\ retry.invoked = i
    /\ retry.slept = i - 1

Dependencies(e) == IF e \in DOMAIN dependency_graph THEN dependency_graph[e] ELSE {}

\* S and every endpoint reachable from it along dependency edges
RECURSIVE ReachableFrom(_)
ReachableFrom(S) ==
    LET next == S \cup UNION { Dependencies(e) : e \in S }
    IN  IF next = S THEN S ELSE ReachableFrom(next)

Acyclic == \A e \in DOMAIN dependency_graph : e \notin ReachableFrom(Dependencies(e))

\* C21: on an acyclic dependency graph every endpoint of the returned plan
\* comes after all of its own dependencies: each d in graph[e] is in the
\* plan at a smaller index than e.
PlanIsTopological ==
    (ppc = "done" /\ Acyclic) =>
        \A i \in DOMAIN ordered :
            \A d \in Dependencies(ordered[i]) :
                \E j \in 1..(i - 1) : ordered[j] = d

\* a plan over a chain of two dependency edges has been returned
ChainPlanReturned ==
    /\ ppc = "done"
    /\ Acyclic
    /\ Len(ordered) = 3
    /\ ordered[2] \in Dependencies(ordered[3])
    /\ ordered[1] \in Dependencies(ordered[2])
    /\ ordered[1] \notin Dependencies(ordered[3])

\* every provider of every name in required_params
RequiredProviders ==
    UNION { IF required_params[i] \in DOMAIN param_to_providers
            THEN { param_to_providers[required_params[i]][k]
                   : k \in DOMAIN param_to_providers[required_params[i]] }
            ELSE {}
            : i \in DOMAIN required_params }

\* C22: the endpoints of the returned plan are exactly the target, the
\* providers of the names in required_params and what is reachable from
\* these along dependency edges; a target with no required parameters and
\* no dependency entry yields the plan [target].
PlanCoversExactlyReachable ==
    ppc = "done" =>
        /\ Range(ordered) = ReachableFrom({target_endpoint} \cup RequiredProviders)
        /\ (required_params = <<>> /\ target_endpoint \notin DOMAIN dependency_graph)
              => ordered = <<target_endpoint>>

\* a plan for a target outside the graph holds an endpoint that is neither
\* the target nor a provider of a required name
ReachedThroughProviderReturned ==
    /\ ppc = "done"
    /\ target_endpoint \notin DOMAIN dependency_graph
    /\ required_params # <<>>
    /\ \E e \in Range(ordered) : e # target_endpoint /\ e \notin RequiredProviders

\* the target alone was asked for and came back alone
LoneTargetReturned ==
    /\ ppc = "done"
    /\ required_params = <<>>
    /\ target_endpoint \notin DOMAIN dependency_graph
    /\ ordered = <<target_endpoint>>

(***************************************************************************)
(* Interactive resolver: resolving stack, context store, provider choice.  *)
(***************************************************************************)
\* the names of the running calls that entered their try block
OwnedNames(k) == { frames[i].name : i \in { j \in 1..k : ~frames[j].cyc } }

\* C23: every call, top-level or nested, leaves the resolving stack as it
\* found it on every exit path, an exception included; the stack holds
\* exactly the names of the running calls that added them, a call that
\* detects a cycle leaves its ancestor's name in, and a top-level call
\* starts from an empty stack.
ResolvingStackRestored ==
    /\ ret.source # "none" => ret.stack_out = ret.stack_in
    /\ rstack = OwnedNames(Len(frames))
    /\ \A i \in DOMAIN frames : frames[i].stack_in = OwnedNames(i - 1)
    /\ \A i \in DOMAIN frames : frames[i].cyc => frames[i].name \in rstack

\* a nested call that detected a cycle has returned and its ancestor's
\* name is still in the stack
CycleCallLeftStackAlone ==
    /\ ret.cyc
    /\ ret.depth >= 2
    /\ ret.name \in ret.stack_out
    /\ ret.name \in rstack
    /\ frames # <<>>

\* the keys of the context store that a step added or gave another value
Written == { k \in DOMAIN context' : k \notin DOMAIN context \/ context'[k] # context[k] }

\* C24: the set of keys of the context store never shrinks, and a step
\* that writes the store changes the entry of the parameter being resolved
\* and no other.
ContextOnlyGrows ==
    [][ /\ DOMAIN context \subseteq DOMAIN context'
        /\ Written # {} => (frames' # <<>> /\ Written = {frames'[Len(frames')].name}) ]_vars

\* a stored empty value was overwritten while another name stayed stored
StoredValueOverwritten ==
    /\ ret.cached = ""
    /\ ret.stored = "typed"
    /\ Cardinality(DOMAIN context) >= 2

(***************************************************************************)
(* A session: resolutions and planning calls on one analyzer, one after    *)
(* the other.  The documents hold several providers per name.              *)
(***************************************************************************)
\* two providers of locationId of equal rank, of ranks against the document
\* order, or with required parameters of their own
LocationProviderPairs ==
    { << Entry("/merchants/{merchantId}/locations/{locationId}", "get", <<>>, {"locationId"}),
         Entry("/locations/{locationId}", "get", <<>>, {"locationId"}) >>,
      << Entry("/locations/{locationId}", "get", <<>>, {"locationId"}),
         Entry("/merchants/{merchantId}/locations/{locationId}", "get", <<>>, {"locationId"}) >>,
      << Entry("/locations", "get", <<Param("note", TRUE)>>, {"locationId"}),
         Entry("/sites", "get", <<>>, {"locationId"}) >>,
      << Entry("/locations", "get", <<Param("merchantId", TRUE)>>, {"locationId"}),
         Entry("/sites", "get", <<Param("note", TRUE), Param("merchantId", TRUE)>>,
               {"locationId"}) >> }

SessionDocuments ==
    { pair \o << Entry("/merchants/{merchantId}", "get", <<Param("merchantId", TRUE)>>,
                       {"merchantId"}),
                 Entry("/merchants", "get", <<TypedParam("limit", FALSE, "integer")>>,
                       {"merchantId"}) >>
      : pair \in LocationProviderPairs }

SessionInputs ==
    { Param("merchantId", TRUE), Param("locationId", TRUE), Param("note", TRUE),
      TypedParam("flag", TRUE, NoneValue) }

SessionTargets == { "/x", "/merchants/{merchantId}" }

SessionInit ==
    /\ paths \in SessionDocuments
    /\ schemas = <<>>
    /\ param_to_providers = analyze_parameters(paths, schemas)
    /\ dependency_graph = build_dependency_graph(paths, param_to_providers)
    /\ PlanIdle
    /\ ClassIdle
    /\ CallsIdle
    /\ ResolveIdle

SessionNext ==
    \/ \E p \in SessionInputs : ppc # "running" /\ ResolveCall(p)
    \/ ResolveStep
    \/ \E t \in SessionTargets, req \in SeqsUpTo({"locationId", "merchantId"}, MaxReq) :
          frames = <<>> /\ PlanCall(t, req)
    \/ PlanStep

SpecSession == SessionInit /\ [][SessionNext]_vars

\* the number of {placeholder} segments of a path
Placeholders(path) == Cardinality({ i \in 1..Len(path) : SubSeq(path, i, i) = "{" })

\* the number of required parameters of the endpoint's GET operation
RequiredCount(endpoint) ==
    IF \E k \in DOMAIN paths : paths[k].path = endpoint /\ paths[k].method = "get"
    THEN LET e == paths[CHOOSE k \in DOMAIN paths :
                            paths[k].path = endpoint /\ paths[k].method = "get"]
         IN  Cardinality({ i \in DOMAIN e.parameters : e.parameters[i].required })
    ELSE 0

\* c is no harder than p on both counts and easier on one
Dominates(c, p) ==
    /\ Placeholders(c) <= Placeholders(p)
    /\ RequiredCount(c) <= RequiredCount(p)
    /\ (Placeholders(c) < Placeholders(p) \/ RequiredCount(c) < RequiredCount(p))

Candidates(name) ==
    IF name \in DOMAIN param_to_providers
    THEN { param_to_providers[name][k] : k \in DOMAIN param_to_providers[name] }
    ELSE {}

\* C25: the provider a resolution selects is dominated by no other
\* candidate; for merchantId (in any case) it is /merchants whenever
\* /merchants is a candidate.
SelectedProviderNotDominated ==
    \A i \in DOMAIN frames :
        frames[i].provider # "" =>
            IF Lower[frames[i].name] = "merchantid"
            THEN "/merchants" \in Candidates(frames[i].name) => frames[i].provider = "/merchants"
            ELSE \A c \in Candidates(frames[i].name) : ~Dominates(c, frames[i].provider)

\* the plan get_execution_plan returns on the index as constructed, when no
\* endpoint it visits has a dependency
PlanAsConstructed ==
    RemoveDuplicates(ProviderRoots(analyze_parameters(paths, schemas), required_params)
                        \o <<target_endpoint>>, {})

\* C26: after construction no resolution and no planning call changes the
\* provider index (members and stored order) or the dependency graph, and
\* get_execution_plan returns for the same arguments the plan it returns
\* before any resolution.
IndexAndGraphReadOnly ==
    /\ param_to_providers = analyze_parameters(paths, schemas)
    /\ dependency_graph = build_dependency_graph(paths, analyze_parameters(paths, schemas))
    /\ (ppc = "done" /\ \A e \in Range(PlanAsConstructed) : Dependencies(e) = {})
          => ordered = PlanAsConstructed

\* the parameters the document declares for the GET operation of an endpoint
DeclaredParameters(endpoint) ==
    IF \E k \in DOMAIN paths : paths[k].path = endpoint /\ paths[k].method = "get"
    THEN paths[CHOOSE k \in DOMAIN paths :
                  paths[k].path = endpoint /\ paths[k].method = "get"].parameters
    ELSE <<>>

\* the names of the required ones among the first n of them
RequiredAmong(endpoint, n) ==
    { DeclaredParameters(endpoint)[i].name
      : i \in { j \in 1..n : j <= Len(DeclaredParameters(endpoint))
                              /\ DeclaredParameters(endpoint)[j].required } }

\* C27: the selected provider is executed only after every one of its
\* required parameters was resolved by a nested call on the same resolving
\* stack, the arguments passed hold required parameter names only, nested
\* calls are made for required parameters only, and a resolution that gets
\* past the provider's parameters executes the provider exactly once.
ProviderExecutedAfterRequired ==
    /\ \A i \in DOMAIN frames :
          LET f == frames[i]
              n == Len(DeclaredParameters(f.provider))
          IN  /\ f.executed <= 1
              /\ DOMAIN f.args \subseteq RequiredAmong(f.provider, f.idx - 1)
              /\ f.executed = 1 =>
                    /\ f.provider # ""
                    /\ f.idx = n + 1
                    /\ DOMAIN f.args = RequiredAmong(f.provider, n)
              /\ (f.provider # "" /\ f.pc = "return") => f.executed = 1
              /\ f.provider = "" => f.executed = 0
              /\ i < Len(frames) =>
                    /\ f.provider # "" /\ f.executed = 0 /\ f.idx <= n
                    /\ DeclaredParameters(f.provider)[f.idx].required
                    /\ frames[i + 1].name = DeclaredParameters(f.provider)[f.idx].name
                    /\ frames[i + 1].stack_in = f.stack_in \cup {f.name}
    /\ ret.executed <= 1
    /\ ret.source = "provider" => ret.executed = 1

\* a provider with an optional and a required parameter was executed with
\* the required one alone
ExecutedWithRequiredOnly ==
    \E i \in DOMAIN frames :
        /\ frames[i].executed = 1
        /\ DOMAIN frames[i].args # {}
        /\ \E k \in DOMAIN DeclaredParameters(frames[i].provider) :
              ~DeclaredParameters(frames[i].provider)[k].required

(***************************************************************************)
(* CircuitBreaker: the HALF_OPEN state.                                    *)
(***************************************************************************)
\* C28: after the breaker enters HALF_OPEN at most half_open_max_calls
\* calls are passed to the wrapped function, and the call that follows the
\* half_open_max_calls-th passed call is rejected without the function
\* being invoked, whatever success_threshold is and however the passed
\* calls ended.
HalfOpenPassesAtMostMaxCalls ==
    /\ bcall.passed <= breaker.half_open_max_calls
    /\ bcall.passed_before = breaker.half_open_max_calls =>
          /\ ~bcall.invoked
          /\ bcall.outcome \in {"rejected_half", "rejected_open"}

\* the callers keep calling
FairSpecBreaker == SpecBreaker /\ WF_vars(\E result \in FunctionResults : BreakerCall(result))

\* C29: a breaker in HALF_OPEN whose callers keep calling eventually moves
\* to CLOSED or to OPEN.
HalfOpenIsLeft ==
    (breaker.state = "half_open") ~> (breaker.state \in {"closed", "open"})

(***************************************************************************)
(* qapi/retry.py: AdaptiveRetry, one step per pass of the loop of execute. *)
(* base_delay only sets the length of the sleeps and is left out.          *)
(* executes and returned are the caller's own count of the execute calls   *)
(* made and of those that returned a result.                               *)
(***************************************************************************)
MaxExecutes == 3     \* execute calls per instance

\* the constructor arguments tried
AdaptiveConfigs ==
    [initial_max_retries : 0..1, success_threshold : 1..2, failure_threshold : 1..2]

\* AdaptiveRetry.__init__
NewAdaptive(config) ==
    [pc |-> "idle", max_retries |-> config.initial_max_retries,
     success_threshold |-> config.success_threshold,
     failure_threshold |-> config.failure_threshold,
     success_count |-> 0, failure_count |-> 0, total_attempts |-> 0, total_retries |-> 0,
     attempt |-> 0, retries_used |-> 0, executes |-> 0, returned |-> 0]

Max(a, b) == IF a >= b THEN a ELSE b
Min(a, b) == IF a <= b THEN a ELSE b

\* AdaptiveRetry._record_success
_record_success(a, retries_used) ==
    LET b == [a EXCEPT !.success_count = @ + 1, !.failure_count = 0,
                       !.total_attempts = @ + 1, !.total_retries = @ + retries_used]
    IN  IF b.success_count >= b.success_threshold
        THEN [b EXCEPT !.max_retries = Max(1, @ - 1), !.success_count = 0]
        ELSE b

\* AdaptiveRetry._record_failure
_record_failure(a, retries_used) ==
    LET b == [a EXCEPT !.failure_count = @ + 1, !.success_count = 0,
                       !.total_attempts = @ + 1, !.total_retries = @ + retries_used]
    IN  IF b.failure_count >= b.failure_threshold
        THEN [b EXCEPT !.max_retries = Min(10, @ + 1), !.failure_count = 0]
        ELSE b

\* a quotient of two integers, kept as the pair
Ratio(num, den) == [num |-> num, den |-> den]
SameRatio(q, num, den) == q.num * den = num * q.den

\* AdaptiveRetry.get_statistics: a rate is 0 while total_attempts is 0
get_statistics(a) ==
    [total_attempts |-> a.total_attempts,
     success_rate |-> IF a.total_attempts > 0
                      THEN Ratio(a.total_attempts - a.failure_count, a.total_attempts)
                      ELSE Ratio(0, 1),
     average_retries |-> IF a.total_attempts > 0
                         THEN Ratio(a.total_retries, a.total_attempts)
                         ELSE Ratio(0, 1),
     current_max_retries |-> a.max_retries]

\* what one func() call can do: return, raise, or raise a RetryableError
\* whose should_retry() is False
AdaptiveOutcomes == { "ok", "error", "refused" }

\* execute is called: lines 287-288
AdaptiveExecute ==
    /\ adaptive.pc = "idle"
    /\ adaptive.executes < MaxExecutes
    /\ adaptive' = [adaptive EXCEPT !.pc = "loop", !.attempt = 0, !.retries_used = 0,
                                    !.executes = @ + 1]
    /\ UNCHANGED <<sel, breaker, bcall, now, retry>>
    /\ UNCHANGED <<analyzerVars, planVars, classVars, resolveVars>>

\* lines 290-326: one pass of the loop, func() ending in outcome
AdaptiveAttempt(outcome) ==
    /\ adaptive.pc = "loop"
    /\ adaptive' =
         IF outcome = "ok"
         THEN [_record_success(adaptive, adaptive.retries_used) EXCEPT
                  !.pc = "idle", !.returned = @ + 1]
         ELSE IF adaptive.attempt >= adaptive.max_retries \/ outcome = "refused"
         THEN [_record_failure(adaptive, adaptive.attempt) EXCEPT
                  !.pc = "idle", !.retries_used = adaptive.attempt]
         ELSE [adaptive EXCEPT !.retries_used = adaptive.attempt, !.attempt = @ + 1]
    /\ UNCHANGED <<sel, breaker, bcall, now, retry>>
    /\ UNCHANGED <<analyzerVars, planVars, classVars, resolveVars>>

AdaptiveInit ==
    /\ paths = <<>>
    /\ schemas = <<>>
    /\ param_to_providers = analyze_parameters(paths, schemas)
    /\ dependency_graph = build_dependency_graph(paths, param_to_providers)
    /\ PlanIdle
    /\ ClassIdle
    /\ ResolveIdle
    /\ sel = NoSelection
    /\ breaker = NoBreaker
    /\ bcall = NoBreakerCall
    /\ now = 0
    /\ retry = NoRetry
    /\ adaptive \in { NewAdaptive(config) : config \in AdaptiveConfigs }

AdaptiveNext ==
    \/ AdaptiveExecute
    \/ \E outcome \in AdaptiveOutcomes : AdaptiveAttempt(outcome)

SpecAdaptive == AdaptiveInit /\ [][AdaptiveNext]_vars

\* C30: between execute calls, get_statistics reports total_attempts equal
\* to the number of execute calls made and success_rate equal to the number
\* of calls that returned a result divided by total_attempts, in whatever
\* order successes and failures came.
StatisticsCountExecutions ==
    (adaptive.pc = "idle" /\ adaptive.executes > 0) =>
        /\ get_statistics(adaptive).total_attempts = adaptive.executes
        /\ SameRatio(get_statistics(adaptive).success_rate,
                     adaptive.returned, adaptive.executes)

====
